---- MODULE Spec2Model ----
(***************************************************************************)
(* passepartout: the OpenCode agent session orchestrator.                  *)
(*                                                                         *)
(*   src/src-tauri/src/opencode.rs   OpencodeManager (new, send_message,   *)
(*                                   subscribe_to_events, process_event,   *)
(*                                   the tool formatters, Drop)            *)
(*   src/src-tauri/src/main.rs       the send_message command and the      *)
(*                                   background initialisation task        *)
(*                                                                         *)
(* Option<T> is a sequence of length 0 (None) or 1 (Some).  Text is a      *)
(* sequence of tokens: text taken from agent input is one token per        *)
(* character ("U2" and "U3" are characters of 2 and 3 UTF-8 bytes, "FFFD"  *)
(* is the replacement character U+FFFD), and a literal of the program is a *)
(* single token holding the literal.                                       *)
(***************************************************************************)
EXTENDS Integers, Sequences, FiniteSets, TLC

(* ------------------------------ bounds --------------------------------- *)

\* send_message commands the UI issues in one run
MaxCalls == 2
\* frames the agent writes to the event subscriptions of one run
MaxFrames == 3
\* frames the agent writes in a run of the whole application
MaxRunFrames == 2
\* tool timestamps range over 0..MaxTime
MaxTime == 2
\* parts in a prompt response
MaxParts == 2
\* characters in a text given to truncate_for_status
MaxText == 52
\* credential commands the UI issues in one run
MaxOps == 3
\* locatings of the tools in one run
MaxLocates == 2
\* stand-in for 2^64 (the u64 range), which TLC's integers cannot hold
U64Modulus == 1024

(* ------------------------- program constants --------------------------- *)

\* opencode.rs:228  let max_retries = 60;
max_retries == 60

(* ------------------------------ Option --------------------------------- *)

None == <<>>
Some(x) == <<x>>
IsSome(o) == o # <<>>
Unwrap(o) == o[1]

(* ------------------------------- text ---------------------------------- *)

\* UTF-8 width of one character token
Width(ch) == IF ch = "U2" THEN 2 ELSE IF ch \in {"U3", "FFFD"} THEN 3 ELSE 1

RECURSIVE ByteLen(_)
\* str::len(): the length in bytes (the sum of the widths, by halves)
ByteLen(text) ==
    IF text = <<>> THEN 0
    ELSE IF Len(text) = 1 THEN Width(text[1])
    ELSE LET h == Len(text) \div 2
         IN  ByteLen(SubSeq(text, 1, h)) + ByteLen(SubSeq(text, h + 1, Len(text)))

\* the number of leading characters that fit in n bytes
RECURSIVE CharsWithin(_, _)
CharsWithin(text, n) ==
    IF text = <<>> THEN 0
    ELSE IF Len(text) = 1 THEN (IF Width(text[1]) <= n THEN 1 ELSE 0)
    ELSE LET h == Len(text) \div 2
             b == ByteLen(SubSeq(text, 1, h))
         IN  IF b <= n THEN h + CharsWithin(SubSeq(text, h + 1, Len(text)), n - b)
             ELSE CharsWithin(SubSeq(text, 1, h), n)

\* str::is_char_boundary(n) for n <= len
IsCharBoundary(text, n) == ByteLen(SubSeq(text, 1, CharsWithin(text, n))) = n

\* the result of a text computation that may panic
TextOk(t) == [panic |-> FALSE, text |-> t]
TextPanic == [panic |-> TRUE, text |-> <<>>]

\* opencode.rs:679-685.  max_length - 3 underflows usize below 3 (a panic in a
\* checked build, an out-of-range slice otherwise), and slicing a str off a
\* character boundary panics.
truncate_for_status(text, max_length) ==
    IF ByteLen(text) <= max_length THEN TextOk(text)
    ELSE IF max_length < 3 THEN TextPanic
    ELSE IF ~IsCharBoundary(text, max_length - 3) THEN TextPanic
    ELSE TextOk(SubSeq(text, 1, CharsWithin(text, max_length - 3)) \o <<".", ".", ".">>)

\* str::to_lowercase on the tool names of the model
to_lowercase(s) ==
    IF s = "Bash" THEN "bash" ELSE IF s = "READ" THEN "read"
    ELSE IF s = "MyTool" THEN "mytool" ELSE s

RECURSIVE LastSegment(_)
\* path.rsplit('/').next(): the text after the last '/'
LastSegment(text) ==
    IF \A i \in 1..Len(text) : text[i] # "/" THEN text
    ELSE LastSegment(Tail(text))

Digits == <<"0", "1", "2", "3", "4", "5", "6", "7", "8", "9">>

RECURSIVE DecStr(_)
\* Display of an unsigned integer
DecStr(n) == IF n < 10 THEN <<Digits[n + 1]>> ELSE DecStr(n \div 10) \o <<Digits[(n % 10) + 1]>>

(* ---------------------------- JSON values ------------------------------ *)

\* a JSON string value, a JSON value that is no string, a JSON object
JStr(t) == [str |-> TRUE, s |-> t]
JNum == [str |-> FALSE, s |-> <<>>]
JObj(f) == [obj |-> TRUE, f |-> f]
JOther == [obj |-> FALSE, f |-> <<>>]

\* serde_json::Value::get(name): None unless an object holding the key
JGet(v, name) == IF v.obj /\ name \in DOMAIN v.f THEN Some(v.f[name]) ELSE None
\* Option::or_else
OrElse(o, p) == IF IsSome(o) THEN o ELSE p
\* .and_then(|v| v.as_str())
AndAsStr(o) == IF IsSome(o) /\ Unwrap(o).str THEN Some(Unwrap(o).s) ELSE None

\* url::Url::parse and host_str on the URLs of the model: "SCHEME" stands for
\* "https://", "MAILTO" for "mailto:" (a URL that parses and has no host)
UrlParses(u) == u # <<>> /\ Head(u) \in {"SCHEME", "MAILTO"} /\ (Head(u) = "SCHEME" => Len(u) > 1 /\ u[2] # "/")
RECURSIVE UpToSlash(_)
UpToSlash(t) == IF t = <<>> \/ Head(t) = "/" THEN <<>> ELSE <<Head(t)>> \o UpToSlash(Tail(t))
UrlHost(u) == IF Head(u) = "SCHEME" THEN Some(UpToSlash(Tail(u))) ELSE None

(* ------------------------- the tool formatters ------------------------- *)

FixedDescription(tool) ==
    CASE tool = "read" -> Some(<<"Reading file">>)
      [] tool = "write" -> Some(<<"Writing file">>)
      [] tool = "edit" -> Some(<<"Editing file">>)
      [] tool = "bash" -> Some(<<"Running command">>)
      [] tool = "glob" -> Some(<<"Searching files">>)
      [] tool = "grep" -> Some(<<"Searching content">>)
      [] tool = "list_directory" -> Some(<<"Listing directory">>)
      [] tool = "web_search" -> Some(<<"Searching the web">>)
      [] tool = "web_fetch" -> Some(<<"Fetching webpage">>)
      [] OTHER -> None

\* the fallback naming the tool in lower case
get_tool_description_lower(tool_name, title) ==
    IF IsSome(title) THEN Unwrap(title)
    ELSE IF IsSome(FixedDescription(to_lowercase(tool_name)))
         THEN Unwrap(FixedDescription(to_lowercase(tool_name)))
         ELSE <<"Running ", to_lowercase(tool_name)>>

\* opencode.rs:654-677
get_tool_description(tool_name, title) ==
    IF IsSome(title) THEN Unwrap(title)
    ELSE IF IsSome(FixedDescription(to_lowercase(tool_name)))
         THEN Unwrap(FixedDescription(to_lowercase(tool_name)))
         ELSE <<"Running ", tool_name>>

\* format!("\"{}\"", t)
Quoted(t) == <<"\"">> \o t \o <<"\"">>

\* .map(|x| f(x)) over a computation that may panic; None gives the empty text
MapTrunc(o, limit, quote) ==
    IF ~IsSome(o) THEN TextOk(<<>>)
    ELSE LET r == truncate_for_status(Unwrap(o), limit)
         IN  IF r.panic THEN TextPanic
             ELSE TextOk(IF quote THEN Quoted(r.text) ELSE r.text)

\* opencode.rs:687-740
format_tool_input_for_status(tool_name, input) ==
    IF ~IsSome(input) THEN TextOk(<<>>)
    ELSE LET v == Unwrap(input)
             tool == to_lowercase(tool_name)
         IN  CASE tool \in {"read", "write", "edit"} ->
                    LET file_path == AndAsStr(OrElse(OrElse(JGet(v, "file_path"), JGet(v, "path")),
                                                     JGet(v, "filename")))
                    IN  IF IsSome(file_path) THEN TextOk(LastSegment(Unwrap(file_path)))
                        ELSE TextOk(<<>>)
               [] tool = "bash" -> MapTrunc(AndAsStr(JGet(v, "command")), 50, FALSE)
               [] tool = "glob" -> MapTrunc(AndAsStr(JGet(v, "pattern")), 40, FALSE)
               [] tool = "grep" -> MapTrunc(AndAsStr(JGet(v, "pattern")), 30, TRUE)
               [] tool = "web_search" -> MapTrunc(AndAsStr(JGet(v, "query")), 40, TRUE)
               [] tool = "web_fetch" ->
                    LET u == AndAsStr(JGet(v, "url"))
                    IN  IF ~IsSome(u) THEN TextOk(<<>>)
                        ELSE IF UrlParses(Unwrap(u))
                             THEN TextOk(IF IsSome(UrlHost(Unwrap(u)))
                                         THEN Unwrap(UrlHost(Unwrap(u))) ELSE Unwrap(u))
                             ELSE truncate_for_status(Unwrap(u), 40)
               [] OTHER -> TextOk(<<>>)

\* opencode.rs:742-785
format_tool_input_for_log(tool_name, input) ==
    IF ~IsSome(input) THEN <<>>
    ELSE LET v == Unwrap(input)
             tool == to_lowercase(tool_name)
             Plain(o) == IF IsSome(o) THEN Unwrap(o) ELSE <<>>
             Quote(o) == IF IsSome(o) THEN Quoted(Unwrap(o)) ELSE <<>>
         IN  CASE tool \in {"read", "write", "edit"} ->
                    Plain(AndAsStr(OrElse(OrElse(JGet(v, "file_path"), JGet(v, "path")),
                                          JGet(v, "filename"))))
               [] tool = "bash" -> Plain(AndAsStr(JGet(v, "command")))
               [] tool = "glob" -> Plain(AndAsStr(JGet(v, "pattern")))
               [] tool = "grep" -> Quote(AndAsStr(JGet(v, "pattern")))
               [] tool = "web_search" -> Quote(AndAsStr(JGet(v, "query")))
               [] tool = "web_fetch" -> Plain(AndAsStr(JGet(v, "url")))
               [] OTHER -> <<>>

(* --------------------------- process_event ----------------------------- *)

\* struct StatusUpdateDetails, opencode.rs:13-28
Details(full_message, tool_name, timestamp, input, output, error, duration) ==
    [full_message |-> full_message, tool_name |-> tool_name, timestamp |-> timestamp,
     input |-> input, output |-> output, error |-> error, duration |-> duration]

PlainDetails(now) == Details(None, None, now, None, None, None, None)

\* struct StatusUpdate, opencode.rs:30-38
StatusUpdate(update_type, message, details) ==
    [update_type |-> update_type, message |-> message, details |-> Some(details)]

\* the three outcomes of process_event: Some(update), None, a panic
Yield(u) == [tag |-> "some", update |-> Some(u)]
Nothing == [tag |-> "none", update |-> None]
Panic == [tag |-> "panic", update |-> None]

\* the duration defaulting to zero when a time is missing
ToolDuration_zero(time, overflow_checks) ==
    IF ~IsSome(time) THEN [panic |-> FALSE, duration |-> Some(0)]
    ELSE LET t == Unwrap(time)
         IN  IF ~IsSome(t.end) \/ ~IsSome(t.start) THEN [panic |-> FALSE, duration |-> Some(0)]
             ELSE IF Unwrap(t.end) >= Unwrap(t.start)
                  THEN [panic |-> FALSE, duration |-> Some(Unwrap(t.end) - Unwrap(t.start))]
                  ELSE IF overflow_checks THEN [panic |-> TRUE, duration |-> None]
                  ELSE [panic |-> FALSE,
                        duration |-> Some((Unwrap(t.end) - Unwrap(t.start)) % U64Modulus)]

\* opencode.rs:547-550 and 569-572: state.time.and_then(|t| Some(t.end? - t.start?)).
\* The u64 subtraction panics when overflow checks are on and wraps otherwise.
ToolDuration(time, overflow_checks) ==
    IF ~IsSome(time) THEN [panic |-> FALSE, duration |-> None]
    ELSE LET t == Unwrap(time)
         IN  IF ~IsSome(t.end) \/ ~IsSome(t.start) THEN [panic |-> FALSE, duration |-> None]
             ELSE IF Unwrap(t.end) >= Unwrap(t.start)
                  THEN [panic |-> FALSE, duration |-> Some(Unwrap(t.end) - Unwrap(t.start))]
                  ELSE IF overflow_checks THEN [panic |-> TRUE, duration |-> None]
                  ELSE [panic |-> FALSE,
                        duration |-> Some((Unwrap(t.end) - Unwrap(t.start)) % U64Modulus)]

\* the arm with an absent attempt read as 0
SessionStatusArm_zero(props, session_id, now) ==
    IF ~IsSome(props.session_id) THEN Nothing
    ELSE IF Unwrap(props.session_id) # session_id THEN Nothing
    ELSE IF ~IsSome(props.status) THEN Nothing
    ELSE LET status == Unwrap(props.status)
         IN  CASE status.status_type = "busy" ->
                    Yield(StatusUpdate("busy", Some(<<"Thinking...">>), PlainDetails(now)))
               [] status.status_type = "idle" ->
                    Yield(StatusUpdate("idle", None, PlainDetails(now)))
               [] status.status_type = "retry" ->
                    Yield(StatusUpdate("retry",
                        Some(<<"Retrying (attempt ">>
                             \o DecStr(IF IsSome(status.attempt) THEN Unwrap(status.attempt) ELSE 0)
                             \o <<")...">>),
                        PlainDetails(now)))
               [] OTHER -> Nothing

\* opencode.rs:445-497, the "session.status" arm
SessionStatusArm(props, session_id, now) ==
    IF ~IsSome(props.session_id) THEN Nothing
    ELSE IF Unwrap(props.session_id) # session_id THEN Nothing
    ELSE IF ~IsSome(props.status) THEN Nothing
    ELSE LET status == Unwrap(props.status)
         IN  CASE status.status_type = "busy" ->
                    Yield(StatusUpdate("busy", Some(<<"Thinking...">>), PlainDetails(now)))
               [] status.status_type = "idle" ->
                    Yield(StatusUpdate("idle", None, PlainDetails(now)))
               [] status.status_type = "retry" ->
                    Yield(StatusUpdate("retry",
                        Some(<<"Retrying (attempt ">>
                             \o DecStr(IF IsSome(status.attempt) THEN Unwrap(status.attempt) ELSE 1)
                             \o <<")...">>),
                        PlainDetails(now)))
               [] OTHER -> Nothing

\* the "tool" part with the separator written even before an empty summary
ToolPart_colon(tool_name, state, now, overflow_checks) ==
    IF ~IsSome(state.status) THEN Nothing
    ELSE CASE Unwrap(state.status) = "running" ->
                LET description == get_tool_description(tool_name, state.title)
                    input_summary_truncated == format_tool_input_for_status(tool_name, state.input)
                    input_summary_full == format_tool_input_for_log(tool_name, state.input)
                IN  IF input_summary_truncated.panic THEN Panic
                    ELSE LET message == description \o <<": ">> \o input_summary_truncated.text
                             full_message == description \o <<": ">> \o input_summary_full
                         IN  Yield(StatusUpdate("tool", Some(message),
                                 Details(Some(full_message), Some(tool_name), now, state.input,
                                         None, None, None)))
           [] Unwrap(state.status) = "completed" ->
                LET d == ToolDuration(state.time, overflow_checks)
                    description == get_tool_description(tool_name, state.title)
                IN  IF d.panic THEN Panic
                    ELSE Yield(StatusUpdate("tool-completed", Some(description \o <<" completed">>),
                             Details(None, Some(tool_name), now, None, state.output, None,
                                     d.duration)))
           [] Unwrap(state.status) = "error" ->
                LET d == ToolDuration(state.time, overflow_checks)
                IN  IF d.panic THEN Panic
                    ELSE Yield(StatusUpdate("tool-error",
                             Some(<<"Error: ">> \o (IF IsSome(state.error) THEN Unwrap(state.error)
                                                    ELSE <<"Unknown error">>)),
                             Details(None, Some(tool_name), now, None, None, state.error,
                                     d.duration)))
           [] OTHER -> Nothing

\* opencode.rs:506-593, the "tool" part
ToolPart(tool_name, state, now, overflow_checks) ==
    IF ~IsSome(state.status) THEN Nothing
    ELSE CASE Unwrap(state.status) = "running" ->
                LET description == get_tool_description(tool_name, state.title)
                    input_summary_truncated == format_tool_input_for_status(tool_name, state.input)
                    input_summary_full == format_tool_input_for_log(tool_name, state.input)
                IN  IF input_summary_truncated.panic THEN Panic
                    ELSE LET message == IF input_summary_truncated.text = <<>> THEN description
                                        ELSE description \o <<": ">> \o input_summary_truncated.text
                             full_message == IF input_summary_full = <<>> THEN description
                                             ELSE description \o <<": ">> \o input_summary_full
                         IN  Yield(StatusUpdate("tool", Some(message),
                                 Details(Some(full_message), Some(tool_name), now, state.input,
                                         None, None, None)))
           [] Unwrap(state.status) = "completed" ->
                LET d == ToolDuration(state.time, overflow_checks)
                    description == get_tool_description(tool_name, state.title)
                IN  IF d.panic THEN Panic
                    ELSE Yield(StatusUpdate("tool-completed", Some(description \o <<" completed">>),
                             Details(None, Some(tool_name), now, None, state.output, None,
                                     d.duration)))
           [] Unwrap(state.status) = "error" ->
                LET d == ToolDuration(state.time, overflow_checks)
                IN  IF d.panic THEN Panic
                    ELSE Yield(StatusUpdate("tool-error",
                             Some(<<"Error: ">> \o (IF IsSome(state.error) THEN Unwrap(state.error)
                                                    ELSE <<"Unknown error">>)),
                             Details(None, Some(tool_name), now, None, None, state.error,
                                     d.duration)))
           [] OTHER -> Nothing

\* the arm with the session filter reading properties.sessionID instead of the
\* part's own sessionID
PartUpdatedArm_props(props, session_id, now, overflow_checks) ==
    IF ~IsSome(props.part) THEN Nothing
    ELSE LET part == Unwrap(props.part)
         IN  IF ~IsSome(props.session_id) THEN Nothing
             ELSE IF Unwrap(props.session_id) # session_id THEN Nothing
             ELSE CASE part.part_type = "tool" ->
                         IF ~IsSome(part.tool) \/ ~IsSome(part.state) THEN Nothing
                         ELSE ToolPart(Unwrap(part.tool), Unwrap(part.state), now, overflow_checks)
                    [] part.part_type = "reasoning" ->
                         Yield(StatusUpdate("reasoning", Some(<<"Reasoning...">>), PlainDetails(now)))
                    [] part.part_type = "text" ->
                         Yield(StatusUpdate("generating", Some(<<"Generating response...">>),
                                            PlainDetails(now)))
                    [] OTHER -> Nothing

\* opencode.rs:498-622, the "message.part.updated" arm
PartUpdatedArm(props, session_id, now, overflow_checks) ==
    IF ~IsSome(props.part) THEN Nothing
    ELSE LET part == Unwrap(props.part)
         IN  IF ~IsSome(part.session_id) THEN Nothing
             ELSE IF Unwrap(part.session_id) # session_id THEN Nothing
             ELSE CASE part.part_type = "tool" ->
                         IF ~IsSome(part.tool) \/ ~IsSome(part.state) THEN Nothing
                         ELSE ToolPart(Unwrap(part.tool), Unwrap(part.state), now, overflow_checks)
                    [] part.part_type = "reasoning" ->
                         Yield(StatusUpdate("reasoning", Some(<<"Reasoning...">>), PlainDetails(now)))
                    [] part.part_type = "text" ->
                         Yield(StatusUpdate("generating", Some(<<"Generating response...">>),
                                            PlainDetails(now)))
                    [] OTHER -> Nothing

\* opencode.rs:623-642, the "session.idle" arm
SessionIdleArm(props, session_id, now) ==
    IF ~IsSome(props.session_id) THEN Nothing
    ELSE IF Unwrap(props.session_id) # session_id THEN Nothing
    ELSE Yield(StatusUpdate("idle", None, PlainDetails(now)))

\* opencode.rs:441-645.  now is the reading of now_millis (opencode.rs:647-652);
\* overflow_checks tells whether the build checks integer overflow.
process_event(event, session_id, now, overflow_checks) ==
    IF ~IsSome(event.properties) THEN Nothing
    ELSE LET props == Unwrap(event.properties)
         IN  CASE event.event_type = "session.status" -> SessionStatusArm(props, session_id, now)
               [] event.event_type = "message.part.updated" ->
                    PartUpdatedArm(props, session_id, now, overflow_checks)
               [] event.event_type = "session.idle" -> SessionIdleArm(props, session_id, now)
               [] OTHER -> Nothing

(* ------------------------- the event stream ---------------------------- *)

\* the tokens of the byte stream: the "data: " prefix, a line feed, the JSON
\* text of an event record, and bytes that are no event record.  The JSON text
\* of an event whose command holds a two-byte character is two tokens: the
\* text up to the first byte of that character ("lead") and the text from its
\* second byte on ("tail"), so that a chunk can end inside the character.
\* The kinds are "data", "nl", "json", "junk", "lead" and "tail"; "json", "lead"
\* and "tail" carry the event record.
Tok(kind, ev) == [k |-> kind, ev |-> ev]

\* the command text in the input of a tool part, if the event has one
EventCommand(event) ==
    IF ~IsSome(event.properties) THEN None
    ELSE IF ~IsSome(Unwrap(event.properties).part) THEN None
    ELSE IF ~IsSome(Unwrap(Unwrap(event.properties).part).state) THEN None
    ELSE LET input == Unwrap(Unwrap(Unwrap(event.properties).part).state).input
         IN  IF ~IsSome(input) THEN None ELSE AndAsStr(JGet(Unwrap(input), "command"))

HasTwoByteChar(event) ==
    IsSome(EventCommand(event))
    /\ \E i \in 1..Len(Unwrap(EventCommand(event))) : Unwrap(EventCommand(event))[i] = "U2"

\* a frame as the agent writes it: with or without the prefix, carrying an
\* event record or junk, ended by a blank line
Frame(prefix, payload) == [prefix |-> prefix, payload |-> payload]
Serialize(frame) ==
    (IF frame.prefix THEN <<Tok("data", None)>> ELSE <<>>)
    \o (IF ~IsSome(frame.payload) THEN <<Tok("junk", None)>>
        ELSE IF HasTwoByteChar(Unwrap(frame.payload))
             THEN <<Tok("lead", frame.payload), Tok("tail", frame.payload)>>
             ELSE <<Tok("json", frame.payload)>>)
    \o <<Tok("nl", None), Tok("nl", None)>>

\* String::from_utf8_lossy(&bytes) on one chunk (opencode.rs:414): a lead byte
\* its continuation byte does not follow in the chunk, and a continuation byte
\* no lead byte precedes in the chunk, each become U+FFFD
from_utf8_lossy(bytes) ==
    [i \in 1..Len(bytes) |->
        IF bytes[i].k = "lead" /\ (i = Len(bytes) \/ bytes[i + 1].k # "tail")
        THEN [bytes[i] EXCEPT !.k = "lead_lossy"]
        ELSE IF bytes[i].k = "tail" /\ (i = 1 \/ bytes[i - 1].k # "lead")
             THEN [bytes[i] EXCEPT !.k = "tail_lossy"]
             ELSE bytes[i]]

RECURSIVE ReplaceTwoByte(_, _)
\* text with each two-byte character replaced by repl
ReplaceTwoByte(text, repl) ==
    IF text = <<>> THEN <<>>
    ELSE (IF Head(text) = "U2" THEN repl ELSE <<Head(text)>>) \o ReplaceTwoByte(Tail(text), repl)

\* the event record the JSON text stands for once the two-byte character of
\* its command reads as repl
WithCommandChar(event, repl) ==
    [event EXCEPT !.properties = Some([Unwrap(@) EXCEPT !.part = Some([Unwrap(@) EXCEPT
        !.state = Some([Unwrap(@) EXCEPT !.input = Some(JObj([Unwrap(@).f EXCEPT
            !["command"] = JStr(ReplaceTwoByte(@.s, repl))]))])])])]

\* buffer.rfind("\n\n"): the last index of two adjacent line feeds, 0 if none
FindDelim_last(buffer) ==
    IF \E i \in 1..(Len(buffer) - 1) : buffer[i].k = "nl" /\ buffer[i + 1].k = "nl"
    THEN CHOOSE i \in 1..(Len(buffer) - 1) :
            /\ buffer[i].k = "nl" /\ buffer[i + 1].k = "nl"
            /\ \A j \in (i + 1)..(Len(buffer) - 1) : ~(buffer[j].k = "nl" /\ buffer[j + 1].k = "nl")
    ELSE 0

\* buffer.find("\n\n"): the first index of two adjacent line feeds, 0 if none
FindDelim(buffer) ==
    IF \E i \in 1..(Len(buffer) - 1) : buffer[i].k = "nl" /\ buffer[i + 1].k = "nl"
    THEN CHOOSE i \in 1..(Len(buffer) - 1) :
            /\ buffer[i].k = "nl" /\ buffer[i + 1].k = "nl"
            /\ \A j \in 1..(i - 1) : ~(buffer[j].k = "nl" /\ buffer[j + 1].k = "nl")
    ELSE 0

\* message.strip_prefix("data: ")
strip_prefix(message) ==
    IF message # <<>> /\ Head(message).k = "data" THEN Some(Tail(message)) ELSE None

\* serde_json::from_str::<Event>(data): one event record, white space around it
from_str_Event(data) ==
    LET body == SelectSeq(data, LAMBDA t : t.k # "nl")
    IN  IF Len(body) = 1 /\ body[1].k = "json" THEN body[1].ev
        ELSE IF /\ Len(body) = 2
                /\ body[1].k \in {"lead", "lead_lossy"}
                /\ body[2].k \in {"tail", "tail_lossy"}
                /\ body[1].ev = body[2].ev
             THEN IF body[1].k = "lead" /\ body[2].k = "tail" THEN body[1].ev
                  ELSE Some(WithCommandChar(Unwrap(body[1].ev),
                            (IF body[1].k = "lead_lossy" THEN <<"FFFD">> ELSE <<>>)
                            \o (IF body[2].k = "tail_lossy" THEN <<"FFFD">> ELSE <<>>)))
             ELSE None

(* ------------------------- the prompt response ------------------------ *)

\* struct PromptResponsePart and struct PromptResponse, opencode.rs:66-79
PromptResponsePart(part_type, text) == [part_type |-> part_type, text |-> text]
PromptResponse(parts) == [parts |-> parts]

\* what the prompt request yields: whether send() succeeded, the status, whether
\* text() succeeded, and the body: its text and the PromptResponse
\* serde_json::from_str reads from it (None when it is no PromptResponse)
Body(text, value) == [text |-> text, value |-> value]
Response(sent, status, readable, body) ==
    [sent |-> sent, status |-> status, readable |-> readable, body |-> body]

\* StatusCode::is_success
is_success(status) == status >= 200 /\ status < 300

\* Display of a StatusCode: the number and the canonical reason
StatusDisplay(status) ==
    DecStr(status) \o <<" ">>
    \o (CASE status = 200 -> <<"OK">>
          [] status = 204 -> <<"No Content">>
          [] status = 404 -> <<"Not Found">>
          [] status = 500 -> <<"Internal Server Error">>
          [] OTHER -> <<"<unknown status code>">>)

\* &text[..text.len().min(n)]: panics when the cut is inside a character
Snippet(text, n) ==
    LET cut == IF ByteLen(text) < n THEN ByteLen(text) ELSE n
    IN  IF IsCharBoundary(text, cut) THEN TextOk(SubSeq(text, 1, CharsWithin(text, cut)))
        ELSE TextPanic

RECURSIVE TextParts(_)
\* opencode.rs:367-371: the texts of the parts of type "text" that carry one
TextParts(parts) ==
    IF parts = <<>> THEN <<>>
    ELSE (IF Head(parts).part_type = "text" /\ IsSome(Head(parts).text)
          THEN <<Unwrap(Head(parts).text)>> ELSE <<>>)
         \o TextParts(Tail(parts))

RECURSIVE join(_, _)
\* [String]::join(sep)
join(texts, sep) ==
    IF texts = <<>> THEN <<>>
    ELSE IF Len(texts) = 1 THEN texts[1]
    ELSE texts[1] \o sep \o join(Tail(texts), sep)

\* what send_message gives: Ok(text), Err(text) of one of four kinds, or a panic
SmOk(text) == [kind |-> "ok", text |-> text]
SmErr(kind, text) == [kind |-> kind, text |-> text]
SmPanic == [kind |-> "panic", text |-> <<>>]
SmPending == [kind |-> "pending", text |-> <<>>]

\* opencode.rs:365-380
ExtractText(prompt_response) ==
    IF IsSome(prompt_response.parts)
    THEN LET text_parts == TextParts(Unwrap(prompt_response.parts))
         IN  IF text_parts = <<>> THEN SmOk(<<"No response received.">>)
             ELSE SmOk(join(text_parts, <<"\n">>))
    ELSE SmOk(<<"No response received.">>)

\* opencode.rs:334-380: send_message from the outcome of the prompt request on.
\* "<e>" stands for the Display of the transport or parse error.
send_message(response) ==
    IF ~response.sent THEN SmErr("send_failed", <<"Failed to send message: ", "<e>">>)
    ELSE IF ~is_success(response.status)
         THEN SmErr("api_error",
                    <<"API error (">> \o StatusDisplay(response.status) \o <<"): ">>
                    \o (IF response.readable THEN response.body.text ELSE <<>>))
    ELSE IF ~response.readable
         THEN SmErr("body_failed", <<"Failed to read response body: ", "<e>">>)
    ELSE IF Snippet(response.body.text, 500).panic THEN SmPanic
    ELSE IF ~IsSome(response.body.value)
         THEN IF Snippet(response.body.text, 200).panic THEN SmPanic
              ELSE SmErr("unparseable",
                         <<"Failed to parse response: ", "<e>", ". Body: ">>
                         \o Snippet(response.body.text, 200).text)
    ELSE ExtractText(Unwrap(response.body.value))

(* ------------------------------ the state ------------------------------ *)

Calls == 1..MaxCalls
\* the session ids events carry, and the ids the agent gives a new session
SessionIds == {"s1", "s2"}
AssignedIds == {"s1"}

VARIABLES
    \* the environment
    resource_dir_ok,    \* app.path().resource_dir() succeeds
    child,              \* the server process: "none", "running", "exited", "killed"
    app,                \* "running", or "exited" once the application state is dropped
    \* one evaluation of process_event (EventSpec)
    pe_event,           \* the event
    pe_session,         \* the active session id
    pe_now,             \* the reading of now_millis
    pe_checks,          \* whether the build checks integer overflow
    pe_out,             \* the outcome; tag "pending" before the evaluation
    \* one evaluation of send_message on the outcome of its request (SendSpec)
    sm_response,        \* what the prompt request yields
    sm_out,             \* the result; kind "pending" before the evaluation
    \* one evaluation of truncate_for_status (TruncSpec)
    tr_text,            \* the text
    tr_limit,           \* max_length
    tr_out,             \* the result, None before the evaluation
    \* one evaluation of the "running" arm of a tool part (ToolSpec)
    tl_name,            \* part.tool
    tl_title,           \* state.title
    tl_input,           \* state.input
    tl_out,             \* what the arm computed, None before the evaluation
    \* the credential store and the commands on it (CredSpec)
    cred_file,          \* api_keys of ~/.passepartout.json, None while the file is absent
    cred_hist,          \* the saves and deletes that returned Ok, in order
    cred_ret,           \* the last command and what it returned
    cred_steps,         \* commands run so far
    inherited,          \* the environment of the application process
    spawn_env,          \* the environment of the spawned server, None before the spawn
    \* two overlapping credential writes (RaceSpec)
    wr_op,              \* per writer: the save or delete it runs
    wr_pc,              \* per writer: "idle", "loaded", "written", "done"
    wr_creds,           \* per writer: the local creds
    wr_result,          \* per writer: what the call returned, None before
    tmp_file,           \* ~/.passepartout.json.tmp, None while it is absent
    \* locating the tools (LocSpec)
    fs,                 \* the paths that exist
    located,            \* what each locating found, with the filesystem it ran on
    \* the background initialisation task (main.rs:189-213, OpencodeManager::new)
    init_pc,            \* "start", "new", "health", "session", "publish", "done", "failed",
                        \* "panicked"
    retries,            \* the local retries of the health-check loop
    attempts,           \* health-check requests sent so far
    init_error,         \* the error OpencodeManager::new returned, "" if none
    new_session_id,     \* session_response.id
    \* AppState (main.rs:18-21)
    opencode,           \* Option<OpencodeManager>
    paths,              \* Option<AppPaths>
    lock,               \* the holder of the opencode mutex: 0 (free) or a call
    \* impl Drop for OpencodeManager
    kill_attempts,      \* calls of Child::kill
    kill_result,        \* the result of the last Child::kill: "none", "Ok", "Err"
    drop_result,        \* "none", "clean", or "panicked" if drop surfaced a failure
    \* the send_message commands
    pc,                 \* per call: "idle", "locking", "posting", "returned", "panicked"
    result,             \* per call: "", "Ok" or the error returned
    prompt,             \* per call: what the prompt request yielded, None before
    req_session,        \* per call: the session id in the URL of the prompt request
    \* the event subscription task of each call
    ev_pc,              \* "none", "connecting", "streaming", "processing",
                        \* "finished", "cancelled", "panicked"
    ev_session,         \* the session_id the task filters by
    abort_req,          \* event_handle.abort() was called
    buffer,             \* the local buffer
    wire,               \* bytes the agent wrote that the task has not yet read
    emitted,            \* the frames the agent wrote to this subscription
    notified,           \* the updates status_callback was invoked with, in order
    late,               \* status_callback was invoked after the call had returned
    leaked              \* a callback of one call ran while another call was posting

toolVars == <<tl_name, tl_title, tl_input, tl_out>>
raceVars == <<wr_op, wr_pc, wr_creds, wr_result, tmp_file>>
credVars == <<cred_file, cred_hist, cred_ret, cred_steps, inherited, spawn_env, raceVars>>
locVars == <<fs, located>>
peVars == <<pe_event, pe_session, pe_now, pe_checks, pe_out,
            sm_response, sm_out, tr_text, tr_limit, tr_out, toolVars, credVars, locVars>>
envVars == <<resource_dir_ok, child, app, peVars>>
initVars == <<init_pc, retries, attempts, init_error, new_session_id>>
stateVars == <<opencode, paths, lock>>
dropVars == <<kill_attempts, kill_result, drop_result>>
callVars == <<pc, result, prompt, req_session>>
evVars == <<ev_pc, ev_session, abort_req, buffer, wire, emitted, notified, late, leaked>>
vars == <<envVars, initVars, stateVars, dropVars, callVars, evVars>>

\* struct OpencodeManager (opencode.rs:129-137): the fields the claims read
Manager(session_id) == [session_id |-> session_id, server_process |-> Some("child")]

Pending == [tag |-> "pending", update |-> None]

\* no evaluation of process_event is under way
EventIdle ==
    /\ pe_event = [event_type |-> "", properties |-> None]
    /\ pe_session = ""
    /\ pe_now = 0
    /\ pe_checks = FALSE
    /\ pe_out = Pending

\* no evaluation of send_message on a response is under way
SendIdle ==
    /\ sm_response = Response(FALSE, 0, FALSE, Body(<<>>, None))
    /\ sm_out = SmPending

\* no evaluation of truncate_for_status is under way
TruncIdle ==
    /\ tr_text = <<>>
    /\ tr_limit = 0
    /\ tr_out = None

\* no evaluation of the "running" arm is under way
ToolIdle ==
    /\ tl_name = ""
    /\ tl_title = None
    /\ tl_input = None
    /\ tl_out = None

\* no credential file, no command on it, no spawn
CredIdle ==
    /\ cred_file = None
    /\ cred_hist = <<>>
    /\ cred_ret = None
    /\ cred_steps = 0
    /\ inherited = <<>>
    /\ spawn_env = None
    /\ wr_op = <<>> /\ wr_pc = <<>> /\ wr_creds = <<>> /\ wr_result = <<>>
    /\ tmp_file = None

\* nothing located
LocIdle ==
    /\ fs = {}
    /\ located = <<>>

PeIdle == EventIdle /\ SendIdle /\ TruncIdle /\ ToolIdle /\ CredIdle /\ LocIdle

\* the application right after main has built the AppState (main.rs:176-187)
AppInit ==
    /\ resource_dir_ok \in BOOLEAN
    /\ child = "none"
    /\ app = "running"
    /\ init_pc = "start"
    /\ retries = 0
    /\ attempts = 0
    /\ init_error = ""
    /\ new_session_id = None
    /\ opencode = None
    /\ paths = None
    /\ lock = 0
    /\ kill_attempts = 0
    /\ kill_result = "none"
    /\ drop_result = "none"
    /\ pc = [c \in Calls |-> "idle"]
    /\ result = [c \in Calls |-> ""]
    /\ prompt = [c \in Calls |-> None]
    /\ req_session = [c \in Calls |-> None]
    /\ ev_pc = [c \in Calls |-> "none"]
    /\ ev_session = [c \in Calls |-> None]
    /\ abort_req = [c \in Calls |-> FALSE]
    /\ buffer = [c \in Calls |-> <<>>]
    /\ wire = [c \in Calls |-> <<>>]
    /\ emitted = [c \in Calls |-> <<>>]
    /\ notified = [c \in Calls |-> <<>>]
    /\ late = [c \in Calls |-> FALSE]
    /\ leaked = FALSE

Init == AppInit /\ PeIdle

(* --------------------------- the environment --------------------------- *)

\* the server process ends by itself
ChildExits ==
    /\ app = "running" /\ child = "running"
    /\ child' = "exited"
    /\ UNCHANGED <<resource_dir_ok, app, peVars>>
    /\ UNCHANGED <<initVars, stateVars, dropVars, callVars, evVars>>

(* ------------------ the background initialisation task ----------------- *)

\* main.rs:191-200: AppPaths::new fails exactly when resource_dir() fails
\* (paths.rs:17), and the task goes on to OpencodeManager::new either way
SetupPaths ==
    /\ app = "running" /\ init_pc = "start"
    /\ paths' = IF resource_dir_ok THEN Some("AppPaths") ELSE None
    /\ init_pc' = "new"
    /\ UNCHANGED <<retries, attempts, init_error, new_session_id, opencode, lock>>
    /\ UNCHANGED <<envVars, dropVars, callVars, evVars>>

\* OpencodeManager::new returns Err(e): the locals are dropped.  The local
\* server_process is a std::process::Child, whose drop leaves the process
\* running, so child is not changed here.
NewFails(e) ==
    /\ init_pc' = "failed"
    /\ init_error' = e

\* new going on when the resource directory cannot be resolved
NewSpawn_nodir(outcome) ==
    /\ app = "running" /\ init_pc = "new"
    /\ IF outcome = "no_port" THEN NewFails("no_port") /\ child' = child
       ELSE IF outcome = "spawn_failed" THEN NewFails("spawn") /\ child' = child
       ELSE /\ child' = "running"
            /\ IF outcome = "client_failed" THEN NewFails("client")
               ELSE init_pc' = "health" /\ init_error' = init_error
    /\ UNCHANGED <<resource_dir_ok, app, peVars>>
    /\ UNCHANGED <<retries, attempts, new_session_id>>
    /\ UNCHANGED <<stateVars, dropVars, callVars, evVars>>

\* opencode.rs:140-224: pick a port, resolve the resource directory, spawn the
\* server, build the HTTP client
NewSpawn(outcome) ==
    /\ app = "running" /\ init_pc = "new"
    /\ IF outcome = "no_port" THEN NewFails("no_port") /\ child' = child
       ELSE IF ~resource_dir_ok THEN NewFails("resource_dir") /\ child' = child
       ELSE IF outcome = "spawn_failed" THEN NewFails("spawn") /\ child' = child
       ELSE /\ child' = "running"
            /\ IF outcome = "client_failed" THEN NewFails("client")
               ELSE init_pc' = "health" /\ init_error' = init_error
    /\ UNCHANGED <<resource_dir_ok, app, peVars>>
    /\ UNCHANGED <<retries, attempts, new_session_id>>
    /\ UNCHANGED <<stateVars, dropVars, callVars, evVars>>

\* the loop with the bound tested by > instead of >=
HealthCheck_late(outcome) ==
    /\ app = "running" /\ init_pc = "health"
    /\ outcome = "success" => child = "running"
    /\ attempts' = attempts + 1
    /\ IF outcome = "success"
       THEN init_pc' = "session" /\ retries' = retries /\ init_error' = init_error
       ELSE /\ retries' = retries + 1
            /\ IF retries' > max_retries THEN NewFails("startup")
               ELSE init_pc' = init_pc /\ init_error' = init_error
    /\ UNCHANGED new_session_id
    /\ UNCHANGED <<envVars, stateVars, dropVars, callVars, evVars>>

\* opencode.rs:226-255: one iteration of the health-check loop.  outcome is
\* "success" (a success status), "status" (another status) or "transport"
\* (the request failed); only a running server answers with success.
HealthCheck(outcome) ==
    /\ app = "running" /\ init_pc = "health"
    /\ outcome = "success" => child = "running"
    /\ attempts' = attempts + 1
    /\ IF outcome = "success"
       THEN init_pc' = "session" /\ retries' = retries /\ init_error' = init_error
       ELSE /\ retries' = retries + 1
            /\ IF retries' >= max_retries THEN NewFails("startup")
               ELSE init_pc' = init_pc /\ init_error' = init_error
    /\ UNCHANGED new_session_id
    /\ UNCHANGED <<envVars, stateVars, dropVars, callVars, evVars>>

\* opencode.rs:263-299: create the session and parse its id.  When new returns
\* Ok its loop counter is gone; the counters are cleared.  outcome "panic" is a
\* body whose byte 500 (or byte 200, when it does not parse) lies inside a
\* character: the slices of lines 280 and 287 panic and the task ends there.
SessionCreate(outcome, id) ==
    /\ app = "running" /\ init_pc = "session"
    /\ outcome = "ok" => child = "running"
    /\ IF outcome = "ok"
       THEN /\ init_pc' = "publish" /\ new_session_id' = Some(id) /\ init_error' = init_error
            /\ retries' = 0 /\ attempts' = 0
       ELSE IF outcome = "panic"
       THEN /\ init_pc' = "panicked"
            /\ UNCHANGED <<init_error, new_session_id, retries, attempts>>
       ELSE NewFails(outcome) /\ new_session_id' = new_session_id /\ UNCHANGED <<retries, attempts>>
    /\ UNCHANGED <<envVars, stateVars, dropVars, callVars, evVars>>

\* the manager stored as soon as the server is healthy
Publish_early ==
    /\ app = "running" /\ init_pc \in {"session", "publish"}
    /\ lock = 0
    /\ opencode' = Some(Manager(IF IsSome(new_session_id) THEN Unwrap(new_session_id) ELSE ""))
    /\ init_pc' = "done"
    /\ UNCHANGED <<retries, attempts, init_error, new_session_id, paths, lock>>
    /\ UNCHANGED <<envVars, dropVars, callVars, evVars>>

\* main.rs:204-207: lock the slot and store the manager
Publish ==
    /\ app = "running" /\ init_pc = "publish"
    /\ lock = 0
    /\ opencode' = Some(Manager(Unwrap(new_session_id)))
    /\ init_pc' = "done"
    /\ UNCHANGED <<retries, attempts, init_error, new_session_id, paths, lock>>
    /\ UNCHANGED <<envVars, dropVars, callVars, evVars>>

(* ----------------------- the send_message command ---------------------- *)

\* the UI invokes the command; calls are numbered in the order of invocation
Invoke(c) ==
    /\ app = "running" /\ pc[c] = "idle"
    /\ \A d \in Calls : d < c => pc[d] # "idle"
    /\ pc' = [pc EXCEPT ![c] = "locking"]
    /\ UNCHANGED <<result, prompt, req_session>>
    /\ UNCHANGED <<envVars, initVars, stateVars, dropVars, evVars>>

\* the command waiting for initialisation to end before it looks at the slot
CmdNotInitialized_waits(c) ==
    /\ app = "running" /\ pc[c] = "locking"
    /\ lock = 0
    /\ init_pc \in {"done", "failed"}
    /\ ~IsSome(opencode)
    /\ pc' = [pc EXCEPT ![c] = "returned"]
    /\ result' = [result EXCEPT ![c] = "NotInitialized"]
    /\ UNCHANGED <<prompt, req_session>>
    /\ UNCHANGED <<envVars, initVars, stateVars, dropVars, evVars>>

\* main.rs:31-34: the lock is taken, the slot is None, the error is returned
\* and the guard dropped
CmdNotInitialized(c) ==
    /\ app = "running" /\ pc[c] = "locking"
    /\ lock = 0
    /\ ~IsSome(opencode)
    /\ pc' = [pc EXCEPT ![c] = "returned"]
    /\ result' = [result EXCEPT ![c] = "NotInitialized"]
    /\ UNCHANGED <<prompt, req_session>>
    /\ UNCHANGED <<envVars, initVars, stateVars, dropVars, evVars>>

\* the command posting its request without waiting for the lock
CmdStart_nolock(c) ==
    /\ app = "running" /\ pc[c] = "locking"
    /\ IsSome(opencode)
    /\ lock' = c
    /\ pc' = [pc EXCEPT ![c] = "posting"]
    /\ req_session' = [req_session EXCEPT ![c] = Some(Unwrap(opencode).session_id)]
    /\ ev_session' = [ev_session EXCEPT ![c] = Some(Unwrap(opencode).session_id)]
    /\ ev_pc' = [ev_pc EXCEPT ![c] = "connecting"]
    /\ UNCHANGED <<result, prompt, opencode, paths>>
    /\ UNCHANGED <<abort_req, buffer, wire, emitted, notified, late, leaked>>
    /\ UNCHANGED <<envVars, initVars, dropVars>>

\* main.rs:31-43 and opencode.rs:312-342: the lock is taken, the manager is
\* there; send_message spawns the event task and posts the prompt request
CmdStart(c) ==
    /\ app = "running" /\ pc[c] = "locking"
    /\ lock = 0
    /\ IsSome(opencode)
    /\ lock' = c
    /\ pc' = [pc EXCEPT ![c] = "posting"]
    /\ req_session' = [req_session EXCEPT ![c] = Some(Unwrap(opencode).session_id)]
    /\ ev_session' = [ev_session EXCEPT ![c] = Some(Unwrap(opencode).session_id)]
    /\ ev_pc' = [ev_pc EXCEPT ![c] = "connecting"]
    /\ UNCHANGED <<result, prompt, opencode, paths>>
    /\ UNCHANGED <<abort_req, buffer, wire, emitted, notified, late, leaked>>
    /\ UNCHANGED <<envVars, initVars, dropVars>>

\* the ways send_message ends
PromptOutcomes == {"ok", "send_failed", "api_error", "body_failed", "unparseable", "panic"}

\* the result the command returns for each of them; none when it panicked
SendResult(outcome) ==
    CASE outcome = "ok" -> "Ok"
      [] outcome = "send_failed" -> "Failed to send message"
      [] outcome = "api_error" -> "API error"
      [] outcome = "body_failed" -> "Failed to read response body"
      [] outcome = "unparseable" -> "Failed to parse response"
      [] outcome = "panic" -> ""

\* a text of n - 1 one-byte characters and a three-byte one: byte n is inside
\* the last character
CutAt(n) == [i \in 1..n |-> IF i = n THEN "U3" ELSE "a"]
AnswerText == <<"h", "i">>
AnswerBody == Body(<<"{", "}">>, Some(PromptResponse(Some(<<PromptResponsePart("text", Some(AnswerText))>>))))

\* the responses of a run of the whole application, one for each way
\* send_message ends
RunResponses ==
    {Response(FALSE, 0, FALSE, Body(<<>>, None)),
     Response(TRUE, 500, TRUE, Body(<<"b", "o", "o", "m">>, None)),
     Response(TRUE, 200, FALSE, Body(<<>>, None)),
     Response(TRUE, 200, TRUE, Body(<<"<", ">">>, None)),
     Response(TRUE, 200, TRUE, Body(CutAt(200), None)),
     Response(TRUE, 200, TRUE, AnswerBody)}

\* send_message on each of them
RunResults == [r \in RunResponses |-> send_message(r)]

\* send_message taking the session id of the manager from the response, as a
\* manager that captures its session id from the first answer would
PromptResolves_capture(c, response) ==
    /\ app = "running" /\ pc[c] = "posting"
    /\ (response.sent /\ response.readable) => child = "running"
    /\ LET outcome == RunResults[response].kind
       IN  /\ abort_req' = [abort_req EXCEPT ![c] = (outcome = "ok")]
           /\ result' = [result EXCEPT ![c] = SendResult(outcome)]
           /\ pc' = [pc EXCEPT ![c] = IF outcome = "panic" THEN "panicked" ELSE "returned"]
           /\ opencode' = IF outcome = "ok"
                          THEN Some([Unwrap(opencode) EXCEPT !.session_id = "s2"])
                          ELSE opencode
    /\ prompt' = [prompt EXCEPT ![c] = Some(response)]
    /\ lock' = 0
    /\ UNCHANGED <<req_session, paths>>
    /\ UNCHANGED <<ev_pc, ev_session, buffer, wire, emitted, notified, late, leaked>>
    /\ UNCHANGED <<envVars, initVars, dropVars>>

\* send_message discarding the manager when the agent refuses the prompt
PromptResolves_reset(c, response) ==
    /\ app = "running" /\ pc[c] = "posting"
    /\ (response.sent /\ response.readable) => child = "running"
    /\ LET outcome == RunResults[response].kind
       IN  /\ abort_req' = [abort_req EXCEPT ![c] = (outcome = "ok")]
           /\ result' = [result EXCEPT ![c] = SendResult(outcome)]
           /\ pc' = [pc EXCEPT ![c] = IF outcome = "panic" THEN "panicked" ELSE "returned"]
           /\ opencode' = IF outcome = "api_error" THEN None ELSE opencode
    /\ prompt' = [prompt EXCEPT ![c] = Some(response)]
    /\ lock' = 0
    /\ UNCHANGED <<req_session, paths>>
    /\ UNCHANGED <<ev_pc, ev_session, buffer, wire, emitted, notified, late, leaked>>
    /\ UNCHANGED <<envVars, initVars, dropVars>>

\* send_message failing when its event task has ended by itself
PromptResolves_evfail(c, response) ==
    /\ app = "running" /\ pc[c] = "posting"
    /\ (response.sent /\ response.readable) => child = "running"
    /\ LET outcome == IF ev_pc[c] \in {"finished", "panicked"} THEN "send_failed"
                      ELSE RunResults[response].kind
       IN  /\ abort_req' = [abort_req EXCEPT ![c] = (outcome = "ok")]
           /\ result' = [result EXCEPT ![c] = SendResult(outcome)]
           /\ pc' = [pc EXCEPT ![c] = IF outcome = "panic" THEN "panicked" ELSE "returned"]
    /\ prompt' = [prompt EXCEPT ![c] = Some(response)]
    /\ lock' = 0
    /\ UNCHANGED <<req_session, opencode, paths>>
    /\ UNCHANGED <<ev_pc, ev_session, buffer, wire, emitted, notified, late, leaked>>
    /\ UNCHANGED <<envVars, initVars, dropVars>>

\* opencode.rs:334-381 and main.rs:39-44: the prompt request resolves and
\* send_message returns; the command returns its result and drops the guard.
\* The four error outcomes return through `?` (lines 343, 348, 355, 360), ahead
\* of event_handle.abort() on line 363; dropping the JoinHandle detaches the task.
\* A panic (lines 357, 360) unwinds through the command: the guard and the
\* JoinHandle are dropped and the command returns nothing.
PromptResolves(c, response) ==
    /\ app = "running" /\ pc[c] = "posting"
    /\ (response.sent /\ response.readable) => child = "running"
    /\ LET outcome == RunResults[response].kind
       IN  /\ abort_req' = [abort_req EXCEPT ![c] = (outcome = "ok")]
           /\ result' = [result EXCEPT ![c] = SendResult(outcome)]
           /\ pc' = [pc EXCEPT ![c] = IF outcome = "panic" THEN "panicked" ELSE "returned"]
    /\ prompt' = [prompt EXCEPT ![c] = Some(response)]
    /\ lock' = 0
    /\ UNCHANGED <<req_session, opencode, paths>>
    /\ UNCHANGED <<ev_pc, ev_session, buffer, wire, emitted, notified, late, leaked>>
    /\ UNCHANGED <<envVars, initVars, dropVars>>

(* -------------------- the event subscription task ---------------------- *)

\* the frames the agent writes in this model
BusyEvent(s) ==
    [event_type |-> "session.status",
     properties |-> Some([session_id |-> Some(s),
                          status |-> Some([status_type |-> "busy", attempt |-> None]),
                          part |-> None])]
IdleEvent(s) ==
    [event_type |-> "session.idle",
     properties |-> Some([session_id |-> Some(s), status |-> None, part |-> None])]
\* a bash command of 17 three-byte characters: 51 bytes, byte 47 inside a character
LongCommand == [i \in 1..17 |-> "U3"]
ToolState(status, title, input, output, error, time) ==
    [status |-> status, title |-> title, input |-> input, output |-> output,
     error |-> error, time |-> time]
BashEvent(s, command) ==
    [event_type |-> "message.part.updated",
     properties |-> Some([session_id |-> None, status |-> None,
        part |-> Some([part_type |-> "tool", session_id |-> Some(s), tool |-> Some("bash"),
                       state |-> Some(ToolState(Some("running"), None,
                                        Some(JObj([f \in {"command"} |-> JStr(command)])),
                                        None, None, None))])])]
\* a bash command of two characters, the second of two bytes
AccentCommand == <<"l", "U2">>
Frames ==
    {Frame(TRUE, Some(BusyEvent(s))) : s \in SessionIds}
    \cup {Frame(TRUE, Some(IdleEvent("s1"))), Frame(FALSE, Some(BusyEvent("s1"))),
          Frame(TRUE, None), Frame(TRUE, Some(BashEvent("s1", LongCommand))),
          Frame(TRUE, Some(BashEvent("s1", AccentCommand)))}

RECURSIVE TotalEmitted(_)
\* the frames written to the subscriptions of calls 1..n
TotalEmitted(n) == IF n = 0 THEN 0 ELSE Len(emitted[n]) + TotalEmitted(n - 1)

\* the frames of a run of the whole application: status events of the two sessions
RunFrames == {Frame(TRUE, Some(BusyEvent(s))) : s \in SessionIds}

\* the agent writes a frame to an open subscription, limit frames at most
ServerEmit(c, frame, limit) ==
    /\ app = "running" /\ child = "running"
    /\ ev_pc[c] \in {"streaming", "processing"}
    /\ TotalEmitted(MaxCalls) < limit
    /\ emitted' = [emitted EXCEPT ![c] = Append(@, frame)]
    /\ wire' = [wire EXCEPT ![c] = @ \o Serialize(frame)]
    /\ UNCHANGED <<ev_pc, ev_session, abort_req, buffer, notified, late, leaked>>
    /\ UNCHANGED <<envVars, initVars, stateVars, dropVars, callVars>>

\* opencode.rs:392-404: the GET /event request resolves
EvConnect(c, ok) ==
    /\ app = "running" /\ ev_pc[c] = "connecting" /\ ~abort_req[c]
    /\ ok => child = "running"
    /\ ev_pc' = [ev_pc EXCEPT ![c] = IF ok THEN "streaming" ELSE "finished"]
    /\ UNCHANGED <<ev_session, abort_req, buffer, wire, emitted, notified, late, leaked>>
    /\ UNCHANGED <<envVars, initVars, stateVars, dropVars, callVars>>

\* JoinHandle::abort takes effect where the task is suspended at an await
EvCancel(c) ==
    /\ app = "running" /\ abort_req[c]
    /\ ev_pc[c] \in {"connecting", "streaming"}
    /\ ev_pc' = [ev_pc EXCEPT ![c] = "cancelled"]
    /\ UNCHANGED <<ev_session, abort_req, buffer, wire, emitted, notified, late, leaked>>
    /\ UNCHANGED <<envVars, initVars, stateVars, dropVars, callVars>>

\* opencode.rs:411-414: stream.next() yields a chunk of n bytes, decoded and
\* appended to buffer
EvReceiveChunk(c, n) ==
    /\ app = "running" /\ ev_pc[c] = "streaming" /\ ~abort_req[c]
    /\ n \in 1..Len(wire[c])
    /\ buffer' = [buffer EXCEPT ![c] = @ \o from_utf8_lossy(SubSeq(wire[c], 1, n))]
    /\ wire' = [wire EXCEPT ![c] = SubSeq(@, n + 1, Len(@))]
    /\ ev_pc' = [ev_pc EXCEPT ![c] = "processing"]
    /\ UNCHANGED <<ev_session, abort_req, emitted, notified, late, leaked>>
    /\ UNCHANGED <<envVars, initVars, stateVars, dropVars, callVars>>

\* what the log of callback invocations keeps of an update: all but the
\* clock reading
Logged(u) == [u EXCEPT !.details = Some([Unwrap(@) EXCEPT !.timestamp = 0])]

\* the inner loop leaving the task at a frame it cannot parse
EvProcessFrame_break(c) ==
    /\ app = "running" /\ ev_pc[c] = "processing"
    /\ FindDelim(buffer[c]) > 0
    /\ \E now \in 0..MaxTime, overflow_checks \in BOOLEAN :
       LET pos == FindDelim(buffer[c])
           message == SubSeq(buffer[c], 1, pos - 1)
           data == strip_prefix(message)
           event == IF IsSome(data) THEN from_str_Event(Unwrap(data)) ELSE None
           status == IF IsSome(event)
                     THEN process_event(Unwrap(event), Unwrap(ev_session[c]), now,
                                        overflow_checks)
                     ELSE Nothing
       IN  /\ buffer' = [buffer EXCEPT ![c] = SubSeq(@, pos + 2, Len(@))]
           /\ ev_pc' = [ev_pc EXCEPT ![c] = IF status.tag = "panic" THEN "panicked"
                                            ELSE IF ~IsSome(event) THEN "finished" ELSE @]
           /\ IF status.tag = "some"
              THEN /\ notified' = [notified EXCEPT ![c] = Append(@, Logged(Unwrap(status.update)))]
                   /\ late' = [late EXCEPT ![c] = @ \/ pc[c] = "returned"]
                   /\ leaked' = (leaked \/ \E d \in Calls : d # c /\ pc[d] = "posting")
              ELSE UNCHANGED <<notified, late, leaked>>
    /\ UNCHANGED <<ev_session, abort_req, wire, emitted>>
    /\ UNCHANGED <<envVars, initVars, stateVars, dropVars, callVars>>

\* the loop resolving the send when the session goes idle
EvProcessFrame_resolves(c) ==
    /\ app = "running" /\ ev_pc[c] = "processing"
    /\ FindDelim(buffer[c]) > 0
    /\ \E now \in 0..MaxTime, overflow_checks \in BOOLEAN :
       LET pos == FindDelim(buffer[c])
           message == SubSeq(buffer[c], 1, pos - 1)
           data == strip_prefix(message)
           event == IF IsSome(data) THEN from_str_Event(Unwrap(data)) ELSE None
           status == IF IsSome(event)
                     THEN process_event(Unwrap(event), Unwrap(ev_session[c]), now,
                                        overflow_checks)
                     ELSE Nothing
           idle == status.tag = "some" /\ Unwrap(status.update).update_type = "idle"
                   /\ pc[c] = "posting"
       IN  /\ buffer' = [buffer EXCEPT ![c] = SubSeq(@, pos + 2, Len(@))]
           /\ ev_pc' = [ev_pc EXCEPT ![c] = IF status.tag = "panic" THEN "panicked" ELSE @]
           /\ pc' = [pc EXCEPT ![c] = IF idle THEN "returned" ELSE @]
           /\ result' = [result EXCEPT ![c] = IF idle THEN "Ok" ELSE @]
           /\ IF status.tag = "some"
              THEN /\ notified' = [notified EXCEPT ![c] = Append(@, Logged(Unwrap(status.update)))]
                   /\ late' = [late EXCEPT ![c] = @ \/ pc[c] = "returned"]
                   /\ leaked' = (leaked \/ \E d \in Calls : d # c /\ pc[d] = "posting")
              ELSE UNCHANGED <<notified, late, leaked>>
    /\ UNCHANGED <<ev_session, abort_req, wire, emitted>>
    /\ UNCHANGED <<prompt, req_session>>
    /\ UNCHANGED <<envVars, initVars, stateVars, dropVars>>

\* opencode.rs:417-431: one iteration of the inner loop: cut the first
\* message off the buffer, parse it, normalise it, invoke the callback.
\* now is the reading of the system clock, overflow_checks the build's setting.
EvProcessFrame(c) ==
    /\ app = "running" /\ ev_pc[c] = "processing"
    /\ FindDelim(buffer[c]) > 0
    /\ \E now \in 0..MaxTime, overflow_checks \in BOOLEAN :
       LET pos == FindDelim(buffer[c])
           message == SubSeq(buffer[c], 1, pos - 1)
           data == strip_prefix(message)
           event == IF IsSome(data) THEN from_str_Event(Unwrap(data)) ELSE None
           status == IF IsSome(event)
                     THEN process_event(Unwrap(event), Unwrap(ev_session[c]), now,
                                        overflow_checks)
                     ELSE Nothing
       IN  /\ buffer' = [buffer EXCEPT ![c] = SubSeq(@, pos + 2, Len(@))]
           /\ ev_pc' = [ev_pc EXCEPT ![c] = IF status.tag = "panic" THEN "panicked" ELSE @]
           /\ IF status.tag = "some"
              THEN /\ notified' = [notified EXCEPT ![c] = Append(@, Logged(Unwrap(status.update)))]
                   /\ late' = [late EXCEPT ![c] = @ \/ pc[c] = "returned"]
                   /\ leaked' = (leaked \/ \E d \in Calls : d # c /\ pc[d] = "posting")
              ELSE UNCHANGED <<notified, late, leaked>>
    /\ UNCHANGED <<ev_session, abort_req, wire, emitted>>
    /\ UNCHANGED <<envVars, initVars, stateVars, dropVars, callVars>>

\* opencode.rs:417 and 411: no complete message is left; await the next chunk
EvLoopDone(c) ==
    /\ app = "running" /\ ev_pc[c] = "processing"
    /\ FindDelim(buffer[c]) = 0
    /\ ev_pc' = [ev_pc EXCEPT ![c] = "streaming"]
    /\ UNCHANGED <<ev_session, abort_req, buffer, wire, emitted, notified, late, leaked>>
    /\ UNCHANGED <<envVars, initVars, stateVars, dropVars, callVars>>

\* opencode.rs:411 and 433-436: the stream ends (error = FALSE) or yields an
\* error (error = TRUE); the task returns
EvStreamEnds(c, error) ==
    /\ app = "running" /\ ev_pc[c] = "streaming" /\ ~abort_req[c]
    /\ ~error => wire[c] = <<>>
    /\ ev_pc' = [ev_pc EXCEPT ![c] = "finished"]
    /\ UNCHANGED <<ev_session, abort_req, buffer, wire, emitted, notified, late, leaked>>
    /\ UNCHANGED <<envVars, initVars, stateVars, dropVars, callVars>>

(* ------------------------------ teardown ------------------------------- *)

\* Child::kill on a child this process has not waited for: SIGKILL reaches a
\* running child; for a child that has already ended the call may fail
KillOutcomes(c) == IF c = "running" THEN {"Ok"} ELSE {"Ok", "Err"}

\* drop taking the handle without killing the child
DropManager_nokill(r) ==
    /\ app = "running" /\ IsSome(opencode) /\ lock = 0
    /\ IsSome(Unwrap(opencode).server_process)
    /\ r \in KillOutcomes(child)
    /\ opencode' = Some([Unwrap(opencode) EXCEPT !.server_process = None])
    /\ drop_result' = "clean"
    /\ app' = "exited"
    /\ UNCHANGED <<kill_attempts, kill_result, child>>
    /\ UNCHANGED <<resource_dir_ok, peVars, paths, lock>>
    /\ UNCHANGED <<initVars, callVars, evVars>>

\* opencode.rs:788-794, run when the application state is dropped: take the
\* child handle, kill it, discard the result
DropManager(r) ==
    /\ app = "running" /\ IsSome(opencode) /\ lock = 0
    /\ IsSome(Unwrap(opencode).server_process)
    /\ r \in KillOutcomes(child)
    /\ opencode' = Some([Unwrap(opencode) EXCEPT !.server_process = None])
    /\ kill_attempts' = kill_attempts + 1
    /\ kill_result' = r
    /\ child' = IF child = "running" THEN "killed" ELSE child
    /\ drop_result' = "clean"
    /\ app' = "exited"
    /\ UNCHANGED <<resource_dir_ok, peVars, paths, lock>>
    /\ UNCHANGED <<initVars, callVars, evVars>>

(* --------------------------- the specification ------------------------- *)

\* The application as a whole: initialisation, the commands, their event
\* tasks and teardown.  A chunk here is all the agent has written so far;
\* StreamSpec below splits the stream between any two tokens.

Next ==
    \/ ChildExits
    \/ SetupPaths
    \/ \E o \in {"no_port", "spawn_failed", "client_failed", "ok"} : NewSpawn(o)
    \/ \E o \in {"success", "status", "transport"} : HealthCheck(o)
    \/ \E o \in {"send_failed", "body_failed", "status", "unparseable", "panic", "ok"} :
          \E id \in AssignedIds : SessionCreate(o, id)
    \/ Publish
    \/ \E c \in Calls : Invoke(c)
    \/ \E c \in Calls : CmdNotInitialized(c)
    \/ \E c \in Calls : CmdStart(c)
    \/ \E c \in Calls : \E r \in RunResponses : PromptResolves(c, r)
    \/ \E c \in Calls : \E f \in RunFrames : ServerEmit(c, f, MaxRunFrames)
    \/ \E c \in Calls : \E ok \in BOOLEAN : EvConnect(c, ok)
    \/ \E c \in Calls : EvCancel(c)
    \/ \E c \in Calls : EvReceiveChunk(c, Len(wire[c]))
    \/ \E c \in Calls : EvProcessFrame(c)
    \/ \E c \in Calls : EvLoopDone(c)
    \/ \E c \in Calls : \E e \in BOOLEAN : EvStreamEnds(c, e)
    \/ \E r \in {"Ok", "Err"} : DropManager(r)

Spec == Init /\ [][Next]_vars

\* One subscription under every chunking of its stream: the application after
\* initialisation has published the manager of session "s1" and the first
\* command has spawned its event task, which is connecting.
\* The prompt request is answered or refused: the two ways send_message
\* leaves the task, aborted or detached.
StreamInit ==
    /\ PeIdle
    /\ resource_dir_ok = TRUE
    /\ child = "running"
    /\ app = "running"
    /\ init_pc = "done"
    /\ retries = 0
    /\ attempts = 0
    /\ init_error = ""
    /\ new_session_id = Some("s1")
    /\ opencode = Some(Manager("s1"))
    /\ paths = Some("AppPaths")
    /\ lock = 1
    /\ kill_attempts = 0
    /\ kill_result = "none"
    /\ drop_result = "none"
    /\ pc = [c \in Calls |-> IF c = 1 THEN "posting" ELSE "idle"]
    /\ result = [c \in Calls |-> ""]
    /\ prompt = [c \in Calls |-> None]
    /\ req_session = [c \in Calls |-> IF c = 1 THEN Some("s1") ELSE None]
    /\ ev_pc = [c \in Calls |-> IF c = 1 THEN "connecting" ELSE "none"]
    /\ ev_session = [c \in Calls |-> IF c = 1 THEN Some("s1") ELSE None]
    /\ abort_req = [c \in Calls |-> FALSE]
    /\ buffer = [c \in Calls |-> <<>>]
    /\ wire = [c \in Calls |-> <<>>]
    /\ emitted = [c \in Calls |-> <<>>]
    /\ notified = [c \in Calls |-> <<>>]
    /\ late = [c \in Calls |-> FALSE]
    /\ leaked = FALSE

StreamNext ==
    \/ \E ok \in BOOLEAN : EvConnect(1, ok)
    \/ \E f \in Frames : ServerEmit(1, f, MaxFrames)
    \/ \E n \in 1..(5 * MaxFrames) : EvReceiveChunk(1, n)
    \/ EvProcessFrame(1)
    \/ EvLoopDone(1)
    \/ \E e \in BOOLEAN : EvStreamEnds(1, e)
    \/ \E r \in {x \in RunResponses : RunResults[x].kind \in {"ok", "api_error"}} :
          PromptResolves(1, r)
    \/ EvCancel(1)

StreamSpec == StreamInit /\ [][StreamNext]_vars

(* ----------------- process_event as a pure function -------------------- *)

StatusChoices ==
    {None} \cup {Some([status_type |-> t, attempt |-> a]) :
                    t \in {"busy", "idle", "retry", "other"}, a \in {None, Some(2)}}

Times == {None, Some([start |-> None, end |-> Some(1)]), Some([start |-> Some(2), end |-> Some(1)]),
          Some([start |-> Some(0), end |-> Some(MaxTime)]),
          Some([start |-> Some(1), end |-> None]), Some([start |-> None, end |-> None])}

ShortCommand == <<"l", "s">>
CommandInput(command) == Some(JObj([f \in {"command"} |-> JStr(command)]))

ToolStates ==
    {ToolState(Some("running"), None, CommandInput(ShortCommand), None, None, None),
     ToolState(Some("running"), None, CommandInput(LongCommand), None, None, None),
     ToolState(Some("pending"), None, None, None, None, None),
     ToolState(None, None, None, None, None, None)}
    \cup {ToolState(Some("completed"), ti, None, None, None, t) :
            ti \in {None, Some(<<"Build">>)}, t \in Times}
    \cup {ToolState(Some("error"), None, None, None, e, t) :
            e \in {None, Some(<<"b", "o", "o", "m">>)}, t \in Times}

PartChoices ==
    {None} \cup {Some([part_type |-> pt, session_id |-> ps, tool |-> tl, state |-> st]) :
                    pt \in {"tool", "reasoning", "text", "other"},
                    ps \in {None} \cup {Some(x) : x \in SessionIds},
                    tl \in {None, Some("bash")},
                    st \in {None} \cup {Some(x) : x \in ToolStates}}

\* the events process_event is evaluated on
EventDomain ==
    {[event_type |-> ty, properties |-> pr] :
        ty \in {"session.status", "session.idle", "other.event"},
        pr \in {None} \cup {Some([session_id |-> ps, status |-> st, part |-> None]) :
                              ps \in {None} \cup {Some(x) : x \in SessionIds},
                              st \in StatusChoices}}
    \cup
    {[event_type |-> "message.part.updated", properties |-> pr] :
        pr \in {None} \cup {Some([session_id |-> ps, status |-> None, part |-> pt]) :
                              ps \in {None} \cup {Some(x) : x \in SessionIds},
                              pt \in PartChoices}}

EventInit ==
    /\ AppInit
    /\ pe_event \in EventDomain
    /\ pe_session \in SessionIds
    /\ pe_now \in 0..MaxTime
    /\ pe_checks \in BOOLEAN
    /\ pe_out = Pending
    /\ SendIdle
    /\ TruncIdle
    /\ ToolIdle /\ CredIdle /\ LocIdle

\* the call Self::process_event(&event, &session_id) (opencode.rs:424-425)
Normalize ==
    /\ pe_out = Pending
    /\ pe_out' = process_event(pe_event, pe_session, pe_now, pe_checks)
    /\ UNCHANGED <<pe_event, pe_session, pe_now, pe_checks>>
    /\ UNCHANGED <<sm_response, sm_out, tr_text, tr_limit, tr_out>>
    /\ UNCHANGED <<toolVars, credVars, locVars>>
    /\ UNCHANGED <<resource_dir_ok, child, app>>
    /\ UNCHANGED <<initVars, stateVars, dropVars, callVars, evVars>>

EventSpec == EventInit /\ [][Normalize]_vars

(* ------------ send_message as a function of the response -------------- *)

PartKinds ==
    {PromptResponsePart("text", Some(<<"h", "i">>)), PromptResponsePart("text", Some(<<"y", "o">>)),
     PromptResponsePart("text", Some(<<>>)), PromptResponsePart("text", None),
     PromptResponsePart("tool", Some(<<"x">>))}

PartLists == UNION {[1..n -> PartKinds] : n \in 0..MaxParts}

\* what serde_json::from_str::<PromptResponse> reads from a body
ResponseValues ==
    {None, Some(PromptResponse(None))} \cup {Some(PromptResponse(Some(ps))) : ps \in PartLists}

\* body texts: short, cut inside a character at byte 200, at byte 500, and
\* 501 one-byte characters
BodyTexts == {<<"{", "}">>, CutAt(200), CutAt(500), [i \in 1..501 |-> "a"]}

Bodies == {Body(<<>>, None)} \cup {Body(t, v) : t \in BodyTexts, v \in ResponseValues}

StatusCodes == {200, 204, 404, 500}

\* the outcomes of the prompt request send_message is evaluated on
Responses ==
    {Response(FALSE, 0, FALSE, Body(<<>>, None))}
    \cup {Response(TRUE, st, FALSE, Body(<<>>, None)) : st \in StatusCodes}
    \cup {Response(TRUE, st, TRUE, b) : st \in StatusCodes, b \in Bodies}

SendInit ==
    /\ AppInit
    /\ EventIdle
    /\ TruncIdle
    /\ ToolIdle /\ CredIdle /\ LocIdle
    /\ sm_response \in Responses
    /\ sm_out = SmPending

\* opencode.rs:334-380 on the outcome of the request
Respond ==
    /\ sm_out = SmPending
    /\ sm_out' = send_message(sm_response)
    /\ UNCHANGED <<pe_event, pe_session, pe_now, pe_checks, pe_out>>
    /\ UNCHANGED <<sm_response, tr_text, tr_limit, tr_out>>
    /\ UNCHANGED <<toolVars, credVars, locVars>>
    /\ UNCHANGED <<resource_dir_ok, child, app>>
    /\ UNCHANGED <<initVars, stateVars, dropVars, callVars, evVars>>

SendSpec == SendInit /\ [][Respond]_vars

(* --------------- truncate_for_status as a pure function ---------------- *)

\* texts of one-byte characters followed by three-byte ones
TruncTexts == {[i \in 1..n |-> IF i <= k THEN "a" ELSE "U3"] : n \in 0..MaxText, k \in 0..MaxText}

\* the limits of the call sites, opencode.rs:712, 717, 722, 727, 735
TruncLimits == {30, 40, 50}

TruncInit ==
    /\ AppInit
    /\ EventIdle
    /\ SendIdle
    /\ ToolIdle /\ CredIdle /\ LocIdle
    /\ tr_text \in TruncTexts
    /\ tr_limit \in TruncLimits
    /\ tr_out = None

\* the call Self::truncate_for_status(text, max_length)
Truncate ==
    /\ tr_out = None
    /\ tr_out' = Some(truncate_for_status(tr_text, tr_limit))
    /\ UNCHANGED <<pe_event, pe_session, pe_now, pe_checks, pe_out>>
    /\ UNCHANGED <<sm_response, sm_out, tr_text, tr_limit>>
    /\ UNCHANGED <<toolVars, credVars, locVars>>
    /\ UNCHANGED <<resource_dir_ok, child, app>>
    /\ UNCHANGED <<initVars, stateVars, dropVars, callVars, evVars>>

TruncSpec == TruncInit /\ [][Truncate]_vars

(* ------------- the "running" arm as a function of the part ------------- *)

\* n one-byte characters
Ascii(n) == [i \in 1..n |-> "a"]

\* the strings an input field holds; among them a file name of 60 characters
\* under /t/ and a URL whose host has 60 characters
InputTexts ==
    {<<>>, ShortCommand, Ascii(50), Ascii(51), LongCommand,
     <<"/", "t", "/", "f">>, <<"/", "t", "/">>, <<"/", "t", "/">> \o Ascii(60),
     <<"SCHEME", "h", "/", "p">>, <<"SCHEME">> \o Ascii(60) \o <<"/">>, <<"MAILTO">> \o Ascii(60)}

\* state.input: absent, no object, an object of one field, and the objects on
\* which the or_else chain of the file tools falls through
ToolInputs ==
    {None, Some(JOther), Some(JObj(<<>>))}
    \cup {Some(JObj([f \in {k} |-> v])) : k \in {"file_path", "path", "filename", "command", "pattern", "query", "url"},
          v \in {JStr(t) : t \in InputTexts} \cup {JNum}}
    \cup {Some(JObj([f \in {"file_path", "path"} |->
                        IF f = "file_path" THEN JNum ELSE JStr(<<"/", "t", "/", "f">>)])),
          Some(JObj([f \in {"path", "filename"} |->
                        IF f = "path" THEN JStr(<<"g">>) ELSE JStr(<<"f">>)]))}

ToolInit ==
    /\ AppInit
    /\ EventIdle /\ SendIdle /\ TruncIdle /\ CredIdle /\ LocIdle
    /\ tl_name \in {"read", "write", "edit", "bash", "glob", "grep", "list_directory",
                     "web_search", "web_fetch", "Bash", "READ", "MyTool"}
    /\ tl_title \in {None, Some(<<"Build">>)}
    /\ tl_input \in ToolInputs
    /\ tl_out = None

\* opencode.rs:512-545 on a part whose state is running
RunningTool ==
    /\ tl_out = None
    /\ tl_out' = Some([description |-> get_tool_description(tl_name, tl_title),
                       summary |-> format_tool_input_for_status(tl_name, tl_input),
                       log |-> format_tool_input_for_log(tl_name, tl_input),
                       out |-> ToolPart(tl_name,
                                        ToolState(Some("running"), tl_title, tl_input, None, None, None),
                                        0, FALSE)])
    /\ UNCHANGED <<tl_name, tl_title, tl_input>>
    /\ UNCHANGED <<pe_event, pe_session, pe_now, pe_checks, pe_out>>
    /\ UNCHANGED <<sm_response, sm_out, tr_text, tr_limit, tr_out, credVars, locVars>>
    /\ UNCHANGED <<resource_dir_ok, child, app>>
    /\ UNCHANGED <<initVars, stateVars, dropVars, callVars, evVars>>

ToolSpec == ToolInit /\ [][RunningTool]_vars

(* ------------------------ the credential store ------------------------ *)

\* enum Provider, in the order of Provider::all() (credentials.rs:21-26, 58-60)
Providers == <<"Anthropic", "OpenAI", "Google">>

\* credentials.rs:30-36
as_str(provider) ==
    CASE provider = "Anthropic" -> <<"a", "n", "t", "h", "r", "o", "p", "i", "c">>
      [] provider = "OpenAI" -> <<"o", "p", "e", "n", "a", "i">>
      [] provider = "Google" -> <<"g", "o", "o", "g", "l", "e">>

\* credentials.rs:39-45
env_var_name(provider) ==
    CASE provider = "Anthropic" -> "ANTHROPIC_API_KEY"
      [] provider = "OpenAI" -> "OPENAI_API_KEY"
      [] provider = "Google" -> "GOOGLE_API_KEY"

\* the capital of each letter of the provider ids
Upper ==
    [a |-> "A", c |-> "C", e |-> "E", g |-> "G", h |-> "H", i |-> "I", k |-> "K", l |-> "L",
     n |-> "N", o |-> "O", p |-> "P", r |-> "R", t |-> "T", u |-> "U", w |-> "W"]

\* str::to_lowercase, character by character
to_lowercase_str(text) ==
    [i \in 1..Len(text) |->
        IF \E l \in DOMAIN Upper : Upper[l] = text[i]
        THEN CHOOSE l \in DOMAIN Upper : Upper[l] = text[i]
        ELSE text[i]]

\* from_str matching the string as given
from_str_exact(text) ==
    CASE text = <<"a", "n", "t", "h", "r", "o", "p", "i", "c">> -> Some("Anthropic")
      [] text = <<"o", "p", "e", "n", "a", "i">> -> Some("OpenAI")
      [] text = <<"g", "o", "o", "g", "l", "e">> -> Some("Google")
      [] OTHER -> None

\* credentials.rs:48-55
from_str(text) ==
    LET lower == to_lowercase_str(text)
    IN  CASE lower = <<"a", "n", "t", "h", "r", "o", "p", "i", "c">> -> Some("Anthropic")
          [] lower = <<"o", "p", "e", "n", "a", "i">> -> Some("OpenAI")
          [] lower = <<"g", "o", "o", "g", "l", "e">> -> Some("Google")
          [] OTHER -> None

\* Result<T, String>
Ok(v) == [ok |-> TRUE, value |-> v, err |-> <<>>]
Err(e) == [ok |-> FALSE, value |-> <<>>, err |-> e]

\* credentials.rs:68-76; read_ok is whether the file, if there, can be read and parsed
load_credentials(file, read_ok) ==
    IF ~IsSome(file) THEN Ok(<<>>)
    ELSE IF ~read_ok THEN Err(<<"Failed to read credentials file">>)
    ELSE Ok(Unwrap(file))

\* credentials.rs:79-108: the file after the call and the result; the rename
\* is the only step that touches the file
save_credentials(file, creds, write_ok) ==
    IF write_ok THEN [file |-> Some(creds), result |-> Ok(<<>>)]
    ELSE [file |-> file, result |-> Err(<<"Failed to save credentials file">>)]

\* delete_credential emptying the whole map
CredentialManager_delete_credential_all(file, provider, read_ok, write_ok) ==
    LET creds == load_credentials(file, read_ok)
    IN  IF ~creds.ok THEN [file |-> file, result |-> creds]
        ELSE save_credentials(file, <<>>, write_ok)

\* credentials.rs:111-123
CredentialManager_save_credential(file, provider, api_key, read_ok, write_ok) ==
    LET creds == load_credentials(file, read_ok)
    IN  IF ~creds.ok THEN [file |-> file, result |-> creds]
        ELSE save_credentials(file,
                              [k \in DOMAIN creds.value \cup {as_str(provider)} |->
                                  IF k = as_str(provider) THEN api_key ELSE creds.value[k]],
                              write_ok)

\* credentials.rs:126-135
get_credential(file, provider, read_ok) ==
    LET creds == load_credentials(file, read_ok)
    IN  IF ~creds.ok THEN creds
        ELSE Ok(IF as_str(provider) \in DOMAIN creds.value
                THEN Some(creds.value[as_str(provider)]) ELSE None)

\* credentials.rs:138-144
CredentialManager_delete_credential(file, provider, read_ok, write_ok) ==
    LET creds == load_credentials(file, read_ok)
    IN  IF ~creds.ok THEN [file |-> file, result |-> creds]
        ELSE save_credentials(file,
                              [k \in DOMAIN creds.value \ {as_str(provider)} |-> creds.value[k]],
                              write_ok)

\* credentials.rs:147-149
has_credential(file, provider, read_ok) ==
    LET c == get_credential(file, provider, read_ok)
    IN  IF ~c.ok THEN c ELSE Ok(IsSome(c.value))

\* credentials.rs:152-159 and main.rs:90-112
CredentialManager_list_credentials(file, read_ok) ==
    IF \E i \in 1..Len(Providers) : ~has_credential(file, Providers[i], read_ok).ok
    THEN has_credential(file, Providers[CHOOSE i \in 1..Len(Providers) :
                                            ~has_credential(file, Providers[i], read_ok).ok], read_ok)
    ELSE Ok([i \in 1..Len(Providers) |->
                [provider_id |-> as_str(Providers[i]),
                 has_key |-> has_credential(file, Providers[i], read_ok).value]])

\* the provider ids the UI passes
ProviderIds ==
    {as_str(Providers[i]) : i \in 1..Len(Providers)}
    \cup {<<"O", "P", "E", "N", "A", "I">>, <<"G", "o", "o", "g", "l", "e">>,
          <<"A", "n", "T", "h", "R", "o", "P", "i", "C">>,
          <<"u", "n", "k", "n", "o", "w", "n">>, <<>>, <<"o", "p", "e", "n", "a", "i", " ">>}

CredInit ==
    /\ AppInit /\ resource_dir_ok
    /\ EventIdle /\ SendIdle /\ TruncIdle /\ ToolIdle /\ LocIdle
    /\ cred_file = None
    /\ cred_hist = <<>>
    /\ cred_ret = None
    /\ cred_steps = 0
    /\ inherited = [n \in {"PATH"} |-> <<"/usr/bin">>]
    /\ spawn_env = None
    /\ wr_op = <<>> /\ wr_pc = <<>> /\ wr_creds = <<>> /\ wr_result = <<>>
    /\ tmp_file = None

\* main.rs:54-69, the save_credential command
SaveCredential(provider_id, api_key, read_ok, write_ok) ==
    /\ cred_steps < MaxOps
    /\ cred_steps' = cred_steps + 1
    /\ LET provider == from_str(provider_id)
       IN  IF ~IsSome(provider)
           THEN /\ cred_ret' = Some([cmd |-> "save", provider_id |-> provider_id,
                                     result |-> Err(<<"Unknown provider: ">> \o provider_id)])
                /\ UNCHANGED <<cred_file, cred_hist>>
           ELSE LET r == CredentialManager_save_credential(cred_file, Unwrap(provider), api_key,
                                                           read_ok, write_ok)
                IN  /\ cred_file' = r.file
                    /\ cred_ret' = Some([cmd |-> "save", provider_id |-> provider_id,
                                         result |-> r.result])
                    /\ cred_hist' = IF r.result.ok
                                    THEN Append(cred_hist, [op |-> "save", provider |-> Unwrap(provider),
                                                            api_key |-> api_key])
                                    ELSE cred_hist
    /\ UNCHANGED <<inherited, spawn_env, raceVars>>
    /\ UNCHANGED <<pe_event, pe_session, pe_now, pe_checks, pe_out>>
    /\ UNCHANGED <<sm_response, sm_out, tr_text, tr_limit, tr_out, toolVars, locVars>>
    /\ UNCHANGED <<resource_dir_ok, child, app>>
    /\ UNCHANGED <<initVars, stateVars, dropVars, callVars, evVars>>

\* main.rs:72-87, the delete_credential command
DeleteCredential(provider_id, read_ok, write_ok) ==
    /\ cred_steps < MaxOps
    /\ cred_steps' = cred_steps + 1
    /\ LET provider == from_str(provider_id)
       IN  IF ~IsSome(provider)
           THEN /\ cred_ret' = Some([cmd |-> "delete", provider_id |-> provider_id,
                                     result |-> Err(<<"Unknown provider: ">> \o provider_id)])
                /\ UNCHANGED <<cred_file, cred_hist>>
           ELSE LET r == CredentialManager_delete_credential(cred_file, Unwrap(provider),
                                                             read_ok, write_ok)
                IN  /\ cred_file' = r.file
                    /\ cred_ret' = Some([cmd |-> "delete", provider_id |-> provider_id,
                                         result |-> r.result])
                    /\ cred_hist' = IF r.result.ok
                                    THEN Append(cred_hist, [op |-> "delete", provider |-> Unwrap(provider),
                                                            api_key |-> <<>>])
                                    ELSE cred_hist
    /\ UNCHANGED <<inherited, spawn_env, raceVars>>
    /\ UNCHANGED <<pe_event, pe_session, pe_now, pe_checks, pe_out>>
    /\ UNCHANGED <<sm_response, sm_out, tr_text, tr_limit, tr_out, toolVars, locVars>>
    /\ UNCHANGED <<resource_dir_ok, child, app>>
    /\ UNCHANGED <<initVars, stateVars, dropVars, callVars, evVars>>

\* main.rs:90-112, the list_credentials command
ListCredentials(read_ok) ==
    /\ cred_steps < MaxOps
    /\ cred_steps' = cred_steps + 1
    /\ cred_ret' = Some([cmd |-> "list", provider_id |-> <<>>,
                         result |-> CredentialManager_list_credentials(cred_file, read_ok)])
    /\ UNCHANGED <<cred_file, cred_hist, inherited, spawn_env, raceVars>>
    /\ UNCHANGED <<pe_event, pe_session, pe_now, pe_checks, pe_out>>
    /\ UNCHANGED <<sm_response, sm_out, tr_text, tr_limit, tr_out, toolVars, locVars>>
    /\ UNCHANGED <<resource_dir_ok, child, app>>
    /\ UNCHANGED <<initVars, stateVars, dropVars, callVars, evVars>>

\* opencode.rs:183-214: the server is spawned with the .env calls of lines
\* 205-212 laid over the inherited environment
SpawnServer ==
    /\ spawn_env = None
    /\ spawn_env' =
          Some([n \in DOMAIN inherited \cup {"PATH", "OPENCODE_SERVER_USERNAME",
                                             "OPENCODE_SERVER_PASSWORD", "PLAYWRIGHT_BROWSERS_PATH"} |->
                   CASE n = "PATH" -> <<"native_tools", ":">> \o inherited["PATH"]
                     [] n = "OPENCODE_SERVER_USERNAME" -> <<"passepartout">>
                     [] n = "OPENCODE_SERVER_PASSWORD" -> <<"password">>
                     [] n = "PLAYWRIGHT_BROWSERS_PATH" -> <<"native_tools", "/", "playwright_browsers">>
                     [] OTHER -> inherited[n]])
    /\ UNCHANGED <<cred_file, cred_hist, cred_ret, cred_steps, inherited, raceVars>>
    /\ UNCHANGED <<pe_event, pe_session, pe_now, pe_checks, pe_out>>
    /\ UNCHANGED <<sm_response, sm_out, tr_text, tr_limit, tr_out, toolVars, locVars>>
    /\ UNCHANGED <<resource_dir_ok, child, app>>
    /\ UNCHANGED <<initVars, stateVars, dropVars, callVars, evVars>>

CredNext ==
    \/ \E id \in ProviderIds, k \in {<<"k1">>, <<"k2">>}, r, w \in BOOLEAN : SaveCredential(id, k, r, w)
    \/ \E id \in ProviderIds, r, w \in BOOLEAN : DeleteCredential(id, r, w)
    \/ \E r \in BOOLEAN : ListCredentials(r)
    \/ SpawnServer

CredSpec == CredInit /\ [][CredNext]_vars

(* --------------------------- locating the tools ------------------------ *)

\* A path is the sequence of its components: <<"resource">> is
\* app.path().resource_dir(), <<"project">> the parent of CARGO_MANIFEST_DIR.
\* Path::join appends a component, and a path exists when it is in files.

\* paths.rs:14-38
AppPaths_new(files, dir_ok) ==
    IF ~dir_ok THEN Err(<<"resource_dir">>)
    ELSE LET native_tools_path == <<"resource">> \o <<"native_tools">>
             opencode_workspace_path == <<"resource">> \o <<"opencode_workspace">>
         IN  IF native_tools_path \in files
             THEN Ok([native_tools_path |-> native_tools_path,
                      opencode_workspace_path |-> opencode_workspace_path])
             ELSE Ok([native_tools_path |-> <<"project">> \o <<"native_tools">>,
                      opencode_workspace_path |-> <<"project">> \o <<"opencode_workspace">>])

\* the binary looked for in the tools directory without a check that it is there
get_binary_path_joined(files, native_tools_path, name) ==
    native_tools_path \o <<name>>

\* paths.rs:50-57
get_binary_path(files, native_tools_path, name) ==
    LET binary_path == native_tools_path \o <<name>>
    IN  IF binary_path \in files THEN binary_path ELSE <<name>>

\* the search path with the tools directory in front whether it exists or not
get_path_env_always(files, native_tools_path, env) ==
    native_tools_path \o <<":">> \o (IF "PATH" \in DOMAIN env THEN env["PATH"] ELSE <<>>)

\* paths.rs:41-47; env is the environment of the process
get_path_env(files, native_tools_path, env) ==
    LET path_env == IF "PATH" \in DOMAIN env THEN env["PATH"] ELSE <<>>
    IN  IF native_tools_path \in files THEN native_tools_path \o <<":">> \o path_env
        ELSE path_env

\* paths.rs:60-62
get_playwright_browsers_path(native_tools_path) ==
    native_tools_path \o <<"playwright_browsers">>

\* opencode.rs:157-212, the paths and the environment OpencodeManager::new
\* works out for itself
OpencodeManager_paths(files, dir_ok, env) ==
    IF ~dir_ok THEN Err(<<"resource_dir">>)
    ELSE LET resource_tools == <<"resource">> \o <<"native_tools">>
             native_tools_path == IF ~(resource_tools \in files)
                                  THEN <<"project">> \o <<"native_tools">> ELSE resource_tools
             opencode_workspace_path == IF ~(resource_tools \in files)
                                        THEN <<"project">> \o <<"opencode_workspace">>
                                        ELSE <<"resource">> \o <<"opencode_workspace">>
             inherited_path == IF "PATH" \in DOMAIN env THEN env["PATH"] ELSE <<>>
             path_env == IF native_tools_path \in files
                         THEN native_tools_path \o <<":">> \o inherited_path
                         ELSE inherited_path
             opencode_binary == IF native_tools_path \o <<"opencode">> \in files
                                THEN native_tools_path \o <<"opencode">> ELSE <<"opencode">>
         IN  Ok([native_tools_path |-> native_tools_path,
                 opencode_workspace_path |-> opencode_workspace_path,
                 binary |-> opencode_binary,
                 path_env |-> path_env,
                 playwright_browsers_path |-> native_tools_path \o <<"playwright_browsers">>])

\* the filesystems: under each root no tools directory, an empty one, or one
\* holding opencode
FsStates ==
    LET TreesUnder(root) ==
            {{}, {root \o <<"native_tools">>},
             {root \o <<"native_tools">>, root \o <<"native_tools", "opencode">>}}
    IN  {a \cup b : a \in TreesUnder(<<"resource">>), b \in TreesUnder(<<"project">>)}

LocInit ==
    /\ AppInit
    /\ EventIdle /\ SendIdle /\ TruncIdle /\ ToolIdle
    /\ cred_file = None /\ cred_hist = <<>> /\ cred_ret = None /\ cred_steps = 0
    /\ spawn_env = None
    /\ wr_op = <<>> /\ wr_pc = <<>> /\ wr_creds = <<>> /\ wr_result = <<>>
    /\ tmp_file = None
    /\ inherited \in {<<>>, [n \in {"PATH"} |-> <<"/usr/bin">>]}
    /\ fs \in FsStates
    /\ located = <<>>

\* AppPaths::new followed by what ensure_browser asks of it: get_binary_path,
\* get_path_env and get_playwright_browsers_path (main.rs:191, 131-133)
LocatePaths(name) ==
    /\ Len(located) < MaxLocates
    /\ LET paths_found == AppPaths_new(fs, resource_dir_ok)
           found == IF ~paths_found.ok THEN paths_found
                    ELSE Ok([native_tools_path |-> paths_found.value.native_tools_path,
                             opencode_workspace_path |-> paths_found.value.opencode_workspace_path,
                             binary |-> get_binary_path(fs, paths_found.value.native_tools_path,
                                                        name),
                             path_env |-> get_path_env(fs, paths_found.value.native_tools_path,
                                                       inherited),
                             playwright_browsers_path |->
                                 get_playwright_browsers_path(
                                     paths_found.value.native_tools_path)])
       IN  located' = Append(located, [files |-> fs, by |-> "AppPaths", name |-> name,
                                       found |-> found])
    /\ UNCHANGED fs
    /\ UNCHANGED <<pe_event, pe_session, pe_now, pe_checks, pe_out>>
    /\ UNCHANGED <<sm_response, sm_out, tr_text, tr_limit, tr_out, toolVars, credVars>>
    /\ UNCHANGED <<resource_dir_ok, child, app>>
    /\ UNCHANGED <<initVars, stateVars, dropVars, callVars, evVars>>

\* OpencodeManager::new up to the spawn (opencode.rs:157-212)
LocateManager ==
    /\ Len(located) < MaxLocates
    /\ located' = Append(located, [files |-> fs, by |-> "OpencodeManager", name |-> "opencode",
                                   found |-> OpencodeManager_paths(fs, resource_dir_ok,
                                                                   inherited)])
    /\ UNCHANGED fs
    /\ UNCHANGED <<pe_event, pe_session, pe_now, pe_checks, pe_out>>
    /\ UNCHANGED <<sm_response, sm_out, tr_text, tr_limit, tr_out, toolVars, credVars>>
    /\ UNCHANGED <<resource_dir_ok, child, app>>
    /\ UNCHANGED <<initVars, stateVars, dropVars, callVars, evVars>>

\* something else changes the filesystem
FsChange(files) ==
    /\ files # fs
    /\ fs' = files
    /\ UNCHANGED located
    /\ UNCHANGED <<pe_event, pe_session, pe_now, pe_checks, pe_out>>
    /\ UNCHANGED <<sm_response, sm_out, tr_text, tr_limit, tr_out, toolVars, credVars>>
    /\ UNCHANGED <<resource_dir_ok, child, app>>
    /\ UNCHANGED <<initVars, stateVars, dropVars, callVars, evVars>>

LocNext ==
    \/ \E name \in {"opencode", "latchkey"} : LocatePaths(name)
    \/ LocateManager
    \/ \E files \in FsStates : FsChange(files)

LocSpec == LocInit /\ [][LocNext]_vars

(* ------------------- two overlapping credential writes ----------------- *)

\* Two calls of save_credential or delete_credential for different providers
\* run side by side (two threads, or two instances of the application on one
\* home directory).  A call is three steps: the load with the change made in
\* memory, the temp file written, the rename.

RaceInit ==
    /\ AppInit /\ resource_dir_ok
    /\ EventIdle /\ SendIdle /\ TruncIdle /\ ToolIdle /\ LocIdle
    /\ cred_file \in {None, Some(<<>>),
                      Some([k \in {as_str(Providers[i]) : i \in 1..Len(Providers)} |-> <<"k0">>])}
    /\ cred_hist = <<>> /\ cred_ret = None /\ cred_steps = 0
    /\ inherited = <<>> /\ spawn_env = None
    /\ wr_op \in {f \in [1..2 -> {[op |-> o, provider |-> Providers[i], api_key |-> <<"k1">>] :
                                    o \in {"save", "delete"}, i \in 1..Len(Providers)}] :
                     f[1].provider # f[2].provider}
    /\ wr_pc = [w \in 1..2 |-> "idle"]
    /\ wr_creds = [w \in 1..2 |-> <<>>]
    /\ wr_result = [w \in 1..2 |-> None]
    /\ tmp_file = None

\* credentials.rs:112-115, 139-140: load_credentials and the change in memory
WriterLoad(w) ==
    /\ wr_pc[w] = "idle"
    /\ LET creds == load_credentials(cred_file, TRUE).value
           key == as_str(wr_op[w].provider)
       IN  wr_creds' = [wr_creds EXCEPT ![w] =
                           IF wr_op[w].op = "save"
                           THEN [k \in DOMAIN creds \cup {key} |->
                                    IF k = key THEN wr_op[w].api_key ELSE creds[k]]
                           ELSE [k \in DOMAIN creds \ {key} |-> creds[k]]]
    /\ wr_pc' = [wr_pc EXCEPT ![w] = "loaded"]
    /\ UNCHANGED <<cred_file, cred_hist, cred_ret, cred_steps, inherited, spawn_env>>
    /\ UNCHANGED <<wr_op, wr_result, tmp_file>>
    /\ UNCHANGED <<pe_event, pe_session, pe_now, pe_checks, pe_out>>
    /\ UNCHANGED <<sm_response, sm_out, tr_text, tr_limit, tr_out, toolVars, locVars>>
    /\ UNCHANGED <<resource_dir_ok, child, app>>
    /\ UNCHANGED <<initVars, stateVars, dropVars, callVars, evVars>>

\* credentials.rs:85-100: File::create on the temp path, which both writers
\* share, and write_all
WriterWriteTemp(w) ==
    /\ wr_pc[w] = "loaded"
    /\ tmp_file' = Some(wr_creds[w])
    /\ wr_pc' = [wr_pc EXCEPT ![w] = "written"]
    /\ UNCHANGED <<cred_file, cred_hist, cred_ret, cred_steps, inherited, spawn_env>>
    /\ UNCHANGED <<wr_op, wr_creds, wr_result>>
    /\ UNCHANGED <<pe_event, pe_session, pe_now, pe_checks, pe_out>>
    /\ UNCHANGED <<sm_response, sm_out, tr_text, tr_limit, tr_out, toolVars, locVars>>
    /\ UNCHANGED <<resource_dir_ok, child, app>>
    /\ UNCHANGED <<initVars, stateVars, dropVars, callVars, evVars>>

\* credentials.rs:103-107: fs::rename; it fails when the other writer has
\* renamed the temp file away
WriterRename(w) ==
    /\ wr_pc[w] = "written"
    /\ IF IsSome(tmp_file)
       THEN /\ cred_file' = tmp_file
            /\ tmp_file' = None
            /\ wr_result' = [wr_result EXCEPT ![w] = Some(Ok(<<>>))]
       ELSE /\ UNCHANGED <<cred_file, tmp_file>>
            /\ wr_result' = [wr_result EXCEPT ![w] =
                                Some(Err(<<"Failed to save credentials file">>))]
    /\ wr_pc' = [wr_pc EXCEPT ![w] = "done"]
    /\ UNCHANGED <<cred_hist, cred_ret, cred_steps, inherited, spawn_env>>
    /\ UNCHANGED <<wr_op, wr_creds>>
    /\ UNCHANGED <<pe_event, pe_session, pe_now, pe_checks, pe_out>>
    /\ UNCHANGED <<sm_response, sm_out, tr_text, tr_limit, tr_out, toolVars, locVars>>
    /\ UNCHANGED <<resource_dir_ok, child, app>>
    /\ UNCHANGED <<initVars, stateVars, dropVars, callVars, evVars>>

RaceNext ==
    \/ \E w \in 1..2 : WriterLoad(w)
    \/ \E w \in 1..2 : WriterWriteTemp(w)
    \/ \E w \in 1..2 : WriterRename(w)

RaceSpec == RaceInit /\ [][RaceNext]_vars

(* ------------------------------ the claims ----------------------------- *)

IsPrefix(a, b) == Len(a) <= Len(b) /\ SubSeq(b, 1, Len(a)) = a

\* a call that got as far as OpencodeManager::send_message and has returned
Resolved(c) == pc[c] = "returned" /\ result[c] # "NotInitialized"

\* C1: after send_message has returned, Ok or Err, the status callback of that
\* call is not invoked again.
C1_NoCallbackAfterReturn == \A c \in Calls : ~late[c]

\* C2: on every exit path of send_message the event task of the call has been
\* cancelled when it returns, and no update of one call's subscription is
\* delivered while another call is being sent.
C2_CancelledOnEveryExit ==
    /\ \A c \in Calls : Resolved(c) => abort_req[c]
    /\ ~leaked

\* C3: when OpencodeManager::new fails after the server was spawned (health
\* check exhausted, session create failed, refused or unparseable), the child
\* process does not keep running.
C3_NoChildAfterInitError ==
    (init_pc = "failed"
        /\ init_error \in {"startup", "send_failed", "body_failed", "status", "unparseable"})
    => child # "running"

\* C4: when the manager is dropped its child is killed: Child::kill is called
\* exactly once, its failure is discarded, and the child is not running
\* afterwards; kill is never called more than once.
C4_ChildKilledOnDrop ==
    /\ kill_attempts <= 1
    /\ app = "exited" =>
          /\ kill_attempts = 1
          /\ child # "running"
          /\ drop_result = "clean"
          /\ ~IsSome(Unwrap(opencode).server_process)
C4_Witness == app = "exited" /\ child = "killed" /\ kill_attempts = 1 /\ kill_result = "Ok"

\* C5: the health-check loop sends at most max_retries requests: while it
\* runs every request so far has failed, it leaves at the first success, and
\* it returns the startup error exactly after the max_retries-th failure.
C5_HealthCheckBounded ==
    /\ attempts <= max_retries
    /\ init_pc = "health" => attempts = retries /\ retries < max_retries
    /\ init_pc = "session" => attempts = retries + 1
    /\ init_error = "startup" => attempts = max_retries /\ retries = max_retries
C5_Witness == init_pc = "failed" /\ init_error = "startup" /\ attempts = max_retries

\* C6: while the manager is not published (before, during and after a failed
\* initialisation) a send_message command returns the not-initialized error
\* without waiting: it can always take the lock and return, it cannot start a
\* send, and it has posted no request, spawned no event task and invoked the
\* notifier zero times.
C6_NotInitializedFailsFast ==
    /\ init_pc # "done" => ~IsSome(opencode)
    /\ \A c \in Calls :
          /\ (pc[c] = "locking" /\ ~IsSome(opencode)) =>
                (ENABLED CmdNotInitialized(c)) /\ ~(ENABLED CmdStart(c))
          /\ result[c] = "NotInitialized" =>
                /\ pc[c] = "returned"
                /\ req_session[c] = None
                /\ ev_pc[c] = "none"
                /\ notified[c] = <<>>
C6_Witness ==
    /\ init_pc = "health"
    /\ pc[1] = "returned" /\ result[1] = "NotInitialized"
    /\ pc[2] = "locking"

\* C7: the session id of the manager is the one parsed during construction
\* and stays so; every prompt request and every event filter of every call
\* uses it, whatever the earlier calls returned.
C7_SessionIdImmutable ==
    /\ IsSome(opencode) => Some(Unwrap(opencode).session_id) = new_session_id
    /\ \A c \in Calls :
          pc[c] \in {"posting", "returned"} /\ result[c] # "NotInitialized" =>
             /\ IsSome(new_session_id)
             /\ req_session[c] = new_session_id
             /\ ev_session[c] = new_session_id
C7_Witness ==
    /\ Resolved(1) /\ result[1] = "Ok"
    /\ pc[2] = "posting" /\ req_session[2] = req_session[1] /\ ev_session[2] = Some("s1")

\* the session id process_event compares with the active one: the one in
\* properties for session.status and session.idle, the part's own for
\* message.part.updated; None when absent
EventSessionId(event) ==
    IF ~IsSome(event.properties) THEN None
    ELSE IF event.event_type = "message.part.updated"
         THEN IF IsSome(Unwrap(event.properties).part)
              THEN Unwrap(Unwrap(event.properties).part).session_id ELSE None
         ELSE Unwrap(event.properties).session_id

\* C8: for a session.status, session.idle or message.part.updated event whose
\* session id is absent or differs from the active one, process_event returns
\* None (and does not panic).
C8_OtherSessionYieldsNothing ==
    (/\ pe_out # Pending
     /\ pe_event.event_type \in {"session.status", "session.idle", "message.part.updated"}
     /\ EventSessionId(pe_event) # Some(pe_session))
    => pe_out = Nothing
C8_Witness ==
    /\ pe_out = Nothing
    /\ pe_event.event_type = "message.part.updated"
    /\ pe_session = "s1"
    /\ IsSome(pe_event.properties)
    /\ Unwrap(pe_event.properties).session_id = Some("s1")
    /\ IsSome(Unwrap(pe_event.properties).part)
    /\ Unwrap(Unwrap(pe_event.properties).part).session_id = Some("s2")
    /\ Unwrap(Unwrap(pe_event.properties).part).part_type = "text"

RECURSIVE Expected(_, _)
\* the updates a sequence of written frames stands for: one per frame that has
\* the prefix and carries an event record process_event maps to an update,
\* in order, up to the first frame on which process_event panics
Expected(frames, session_id) ==
    IF frames = <<>> THEN <<>>
    ELSE LET f == Head(frames)
             r == IF f.prefix /\ IsSome(f.payload)
                  THEN process_event(Unwrap(f.payload), session_id, 0, FALSE)
                  ELSE Nothing
         IN  CASE r.tag = "panic" -> <<>>
               [] r.tag = "some" -> <<Logged(Unwrap(r.update))>> \o Expected(Tail(frames), session_id)
               [] OTHER -> Expected(Tail(frames), session_id)

\* a frame as it reads when a chunk ended inside its two-byte character
LossyFrame(f) ==
    IF IsSome(f.payload) /\ HasTwoByteChar(Unwrap(f.payload))
    THEN [f EXCEPT !.payload = Some(WithCommandChar(Unwrap(@), <<"FFFD", "FFFD">>))]
    ELSE f
\* the ways a sequence of written frames can read after decoding
Readings(frames) ==
    {[i \in 1..Len(frames) |-> IF i \in S THEN LossyFrame(frames[i]) ELSE frames[i]] :
        S \in SUBSET (1..Len(frames))}

\* C9: the notifier receives the updates in the order of their frames in the
\* stream, one invocation per event, none reordered, merged or repeated: what
\* it has received is always an initial part of the updates of the frames
\* written, each frame read as decoded.
C9_DeliveredInStreamOrder ==
    \A c \in Calls :
        IsSome(ev_session[c]) =>
            \E r \in Readings(emitted[c]) :
                IsPrefix(notified[c], Expected(r, Unwrap(ev_session[c])))
C9_Witness ==
    /\ Len(emitted[1]) = 3
    /\ Len(notified[1]) = 2
    /\ notified[1][1].update_type = "idle"
    /\ notified[1][2].update_type = "busy"

\* the delimiters in a byte sequence: each written frame has one
Delims(toks) == Cardinality({i \in 1..(Len(toks) - 1) : toks[i].k = "nl" /\ toks[i + 1].k = "nl"})
\* the frames the task has cut off its buffer
Consumed(c) == SubSeq(emitted[c], 1, Len(emitted[c]) - Delims(buffer[c] \o wire[c]))
Malformed(f) == ~f.prefix \/ ~IsSome(f.payload)

\* C10: a frame without the prefix or with an invalid payload is dropped and
\* the subscription goes on: the task never ends with a complete frame left in
\* its buffer, and the updates delivered are exactly those of the frames
\* consumed so far (each read as decoded), the ones after a malformed frame
\* included.
C10_MalformedFrameDropped ==
    \A c \in Calls :
        IsSome(ev_session[c]) =>
            /\ ev_pc[c] \in {"streaming", "finished", "cancelled"} => FindDelim(buffer[c]) = 0
            /\ \E r \in Readings(Consumed(c)) :
                   notified[c] = Expected(r, Unwrap(ev_session[c]))
C10_Witness ==
    /\ Len(emitted[1]) = 3
    /\ Malformed(emitted[1][1]) /\ ~emitted[1][1].prefix
    /\ Malformed(emitted[1][2]) /\ emitted[1][2].prefix
    /\ ~Malformed(emitted[1][3])
    /\ Len(Consumed(1)) = 3
    /\ Len(notified[1]) = 1
    /\ ev_pc[1] = "streaming"

RECURSIVE WireOf(_)
\* the bytes of a sequence of written frames
WireOf(frames) == IF frames = <<>> THEN <<>> ELSE Serialize(Head(frames)) \o WireOf(Tail(frames))

RECURSIVE RunLoop(_, _)
\* the updates the inner loop (opencode.rs:417-431) delivers from a buffer,
\* up to a panic of process_event
RunLoop(buf, session_id) ==
    IF FindDelim(buf) = 0 THEN <<>>
    ELSE LET pos == FindDelim(buf)
             data == strip_prefix(SubSeq(buf, 1, pos - 1))
             event == IF IsSome(data) THEN from_str_Event(Unwrap(data)) ELSE None
             status == IF IsSome(event) THEN process_event(Unwrap(event), session_id, 0, FALSE)
                       ELSE Nothing
             rest == SubSeq(buf, pos + 2, Len(buf))
         IN  CASE status.tag = "panic" -> <<>>
               [] status.tag = "some" ->
                     <<Logged(Unwrap(status.update))>> \o RunLoop(rest, session_id)
               [] OTHER -> RunLoop(rest, session_id)

\* the updates subscribe_to_events delivers when frames arrive as one chunk
SingleChunk(frames, session_id) == RunLoop(from_utf8_lossy(WireOf(frames)), session_id)

\* C11: however the stream is split into chunks, the updates delivered for
\* the frames consumed so far are those the same frames give when they arrive
\* as a single chunk.
C11_ChunkingIrrelevant ==
    \A c \in Calls :
        IsSome(ev_session[c]) => notified[c] = SingleChunk(Consumed(c), Unwrap(ev_session[c]))

RECURSIVE JoinedTexts(_, _)
\* the texts of the text-typed parts among the first n parts, in order, a
\* line feed between two of them
JoinedTexts(parts, n) ==
    IF n = 0 THEN <<>>
    ELSE LET p == parts[n]
             earlier == \E j \in 1..(n - 1) : parts[j].part_type = "text" /\ IsSome(parts[j].text)
         IN  IF p.part_type = "text" /\ IsSome(p.text)
             THEN (IF earlier THEN JoinedTexts(parts, n - 1) \o <<"\n">> ELSE <<>>) \o Unwrap(p.text)
             ELSE JoinedTexts(parts, n - 1)

\* the answer the claim gives for a parsed response
AnswerOf(value) ==
    IF ~IsSome(value.parts) THEN <<"No response received.">>
    ELSE IF \A i \in 1..Len(Unwrap(value.parts)) :
                ~(Unwrap(value.parts)[i].part_type = "text" /\ IsSome(Unwrap(value.parts)[i].text))
         THEN <<"No response received.">>
         ELSE JoinedTexts(Unwrap(value.parts), Len(Unwrap(value.parts)))

\* the request succeeded with a success status and a body that parses
Parseable(response) ==
    response.sent /\ is_success(response.status) /\ response.readable
    /\ IsSome(response.body.value)

\* C12: on a successful, parseable response send_message returns Ok with the
\* texts of the text-typed parts in response order joined by a line feed, and
\* "No response received." when there is no parts list or no such part.
C12_TextPartsJoined ==
    (sm_out # SmPending /\ Parseable(sm_response))
    => sm_out = SmOk(AnswerOf(Unwrap(sm_response.body.value)))

\* C13: when the agent answers the prompt with a non-success status the
\* command returns the API error made of the status and the body, the manager
\* keeps its session id and its child handle, and every other call on the
\* manager sends to the same session.
C13_ApiErrorLeavesManager ==
    \A c \in Calls :
        (IsSome(prompt[c]) /\ Unwrap(prompt[c]).sent /\ ~is_success(Unwrap(prompt[c]).status)) =>
            /\ pc[c] = "returned" /\ result[c] = "API error"
            /\ send_message(Unwrap(prompt[c])).text =
                  <<"API error (">> \o StatusDisplay(Unwrap(prompt[c]).status) \o <<"): ">>
                  \o Unwrap(prompt[c]).body.text
            /\ app = "running" => opencode = Some(Manager(Unwrap(req_session[c])))
            /\ \A d \in Calls : IsSome(req_session[d]) => req_session[d] = req_session[c]
C13_Witness ==
    /\ result[1] = "API error"
    /\ pc[2] = "returned" /\ result[2] = "Ok"
    /\ req_session[2] = req_session[1]

\* C14: send_message returns Ok only for a request that succeeded with a
\* success status and a body that parsed; a transport failure, a non-success
\* status, a body read failure and an unparseable body each make it return
\* an error.
C14_OkOnlyOnParsedResponse ==
    sm_out # SmPending =>
        /\ sm_out.kind = "ok" => Parseable(sm_response)
        /\ ~Parseable(sm_response) =>
              sm_out.kind \in {"send_failed", "api_error", "body_failed", "unparseable"}

\* C15: the result of send_message is a function of the outcome of the prompt
\* request alone: whether the subscription failed to open, its stream broke,
\* its task panicked or frames were malformed, the command returns what
\* send_message gives for that outcome.
C15_ResultFromPromptOnly ==
    \A c \in Calls :
        IsSome(prompt[c]) => result[c] = SendResult(send_message(Unwrap(prompt[c])).kind)
C15_Witness ==
    /\ result[1] = "Ok"
    /\ ev_pc[1] = "finished"
    /\ Len(emitted[1]) = 1 /\ Malformed(emitted[1][1])
    /\ Len(Consumed(1)) = 1

\* a session-idle update was delivered to the notifier of call c
IdleDelivered(c) == \E i \in 1..Len(notified[c]) : notified[c][i].update_type = "idle"

\* C16 as stated: once the stream has signalled session-idle for the active
\* session the send has resolved.
C16_ResolvesOnIdle == \A c \in Calls : IdleDelivered(c) => pc[c] # "posting"

\* C16 as amended: a send resolves only through its prompt request, and with
\* Ok only when that request succeeded and its body parsed; a session-idle
\* event yields an idle update and does not resolve the send.
C16_ResolvesOnResponseOnly ==
    \A c \in Calls :
        /\ (pc[c] \in {"returned", "panicked"} /\ result[c] # "NotInitialized") => IsSome(prompt[c])
        /\ result[c] = "Ok" => IsSome(prompt[c]) /\ Parseable(Unwrap(prompt[c]))
C16_Witness ==
    /\ IdleDelivered(1)
    /\ pc[1] = "returned" /\ result[1] = "Ok"
    /\ Parseable(Unwrap(prompt[1]))

\* the status of a session.status event of the active session, None otherwise
ActiveStatus ==
    IF pe_event.event_type = "session.status" /\ IsSome(pe_event.properties)
       /\ Unwrap(pe_event.properties).session_id = Some(pe_session)
    THEN Unwrap(pe_event.properties).status ELSE None

\* C17: for a session.status event of the active session process_event yields
\* one update: busy with "Thinking...", idle without a message, retry with
\* "Retrying (attempt n)..." (n = 1 when the attempt is absent), and nothing
\* for any other status type.
C17_SessionStatusMapping ==
    (pe_out # Pending /\ IsSome(ActiveStatus)) =>
        LET st == Unwrap(ActiveStatus)
        IN  CASE st.status_type = "busy" ->
                    /\ pe_out.tag = "some"
                    /\ Unwrap(pe_out.update).update_type = "busy"
                    /\ Unwrap(pe_out.update).message = Some(<<"Thinking...">>)
              [] st.status_type = "idle" ->
                    /\ pe_out.tag = "some"
                    /\ Unwrap(pe_out.update).update_type = "idle"
                    /\ Unwrap(pe_out.update).message = None
              [] st.status_type = "retry" ->
                    /\ pe_out.tag = "some"
                    /\ Unwrap(pe_out.update).update_type = "retry"
                    /\ Unwrap(pe_out.update).message =
                          Some(<<"Retrying (attempt ",
                                 IF st.attempt = Some(2) THEN "2" ELSE "1", ")...">>)
              [] OTHER -> pe_out = Nothing
C17_Witness ==
    /\ IsSome(ActiveStatus)
    /\ Unwrap(ActiveStatus).status_type = "retry" /\ Unwrap(ActiveStatus).attempt = None
    /\ pe_out.tag = "some"
    /\ Unwrap(pe_out.update).message = Some(<<"Retrying (attempt ", "1", ")...">>)

\* the part of a message.part.updated event of the active session, None otherwise
ActivePart ==
    IF pe_event.event_type = "message.part.updated" /\ IsSome(pe_event.properties)
       /\ IsSome(Unwrap(pe_event.properties).part)
       /\ Unwrap(Unwrap(pe_event.properties).part).session_id = Some(pe_session)
    THEN Unwrap(pe_event.properties).part ELSE None

\* the kind and message the claim gives for a part; kind "" for no update, and
\* message None where the claim leaves the message open
PartMapping(part) ==
    CASE part.part_type = "reasoning" -> [kind |-> "reasoning", message |-> Some(<<"Reasoning...">>)]
      [] part.part_type = "text" ->
            [kind |-> "generating", message |-> Some(<<"Generating response...">>)]
      [] part.part_type = "tool" /\ IsSome(part.tool) /\ IsSome(part.state)
         /\ IsSome(Unwrap(part.state).status) ->
            LET state == Unwrap(part.state)
            IN  CASE Unwrap(state.status) = "running" -> [kind |-> "tool", message |-> None]
                  [] Unwrap(state.status) = "completed" ->
                        [kind |-> "tool-completed",
                         message |-> Some(get_tool_description(Unwrap(part.tool), state.title)
                                          \o <<" completed">>)]
                  [] Unwrap(state.status) = "error" ->
                        [kind |-> "tool-error",
                         message |-> Some(<<"Error: ">>
                                          \o (IF IsSome(state.error) THEN Unwrap(state.error)
                                              ELSE <<"Unknown error">>))]
                  [] OTHER -> [kind |-> "", message |-> None]
      [] OTHER -> [kind |-> "", message |-> None]

\* C18: for a message.part.updated event of the active session process_event
\* maps a tool part by its status (running to tool, completed to
\* tool-completed with "<description> completed", error to tool-error with
\* "Error: <error>" or "Error: Unknown error"), a reasoning part to reasoning,
\* a text part to generating, and yields nothing for any other part type or
\* tool status and for a tool part without its name, state or status.
C18_PartMapping ==
    (pe_out # Pending /\ IsSome(ActivePart)) =>
        LET m == PartMapping(Unwrap(ActivePart))
        IN  IF m.kind = "" THEN pe_out = Nothing
            ELSE /\ pe_out.tag = "some"
                 /\ Unwrap(pe_out.update).update_type = m.kind
                 /\ IsSome(m.message) => Unwrap(pe_out.update).message = m.message

\* the time record of a tool part that has a state
MissingTime(state) ==
    ~IsSome(state.time) \/ ~IsSome(Unwrap(state.time).start) \/ ~IsSome(Unwrap(state.time).end)

\* C19: for every tool event whose time record is absent or lacks start or
\* end, the update process_event yields carries no duration.
C19_NoDurationWithoutTimes ==
    (/\ pe_out.tag = "some"
     /\ IsSome(ActivePart)
     /\ Unwrap(ActivePart).part_type = "tool"
     /\ MissingTime(Unwrap(Unwrap(ActivePart).state)))
    => Unwrap(Unwrap(pe_out.update).details).duration = None
C19_Witness ==
    /\ pe_out.tag = "some"
    /\ IsSome(ActivePart)
    /\ Unwrap(pe_out.update).update_type = "tool-completed"
    /\ Unwrap(Unwrap(ActivePart).state).time = Some([start |-> None, end |-> Some(1)])
    /\ Unwrap(Unwrap(pe_out.update).details).duration = None

\* C20: truncate_for_status returns a text of at most limit characters
\* unchanged, and for a longer one the first limit - 3 characters followed by
\* "...", limit characters in all.
C20_TruncateToLimit ==
    IsSome(tr_out) =>
        /\ ~Unwrap(tr_out).panic
        /\ Len(tr_text) <= tr_limit => Unwrap(tr_out).text = tr_text
        /\ Len(tr_text) > tr_limit =>
              /\ Len(Unwrap(tr_out).text) = tr_limit
              /\ Unwrap(tr_out).text = SubSeq(tr_text, 1, tr_limit - 3) \o <<".", ".", ".">>

\* the update a running tool event was normalised to
RunningUpdate == Unwrap(Unwrap(tl_out).out.update)
RunningYields == tl_out # None /\ Unwrap(tl_out).out.tag = "some"

\* C21: for every running tool event, whatever the tool and its input, the
\* summary embedded in the status message has at most about 50 characters (50
\* and the two quotes of grep and web_search); this covers the file names of
\* read/write/edit and the hosts of web_fetch.
C21_SummaryBounded ==
    tl_out # None =>
        /\ ~Unwrap(tl_out).summary.panic
        /\ Len(Unwrap(tl_out).summary.text) <= 52

\* the fixed descriptions, and the spellings of a tool name in the model
DescriptionTable ==
    [read |-> <<"Reading file">>, write |-> <<"Writing file">>, edit |-> <<"Editing file">>,
     bash |-> <<"Running command">>, glob |-> <<"Searching files">>,
     grep |-> <<"Searching content">>, list_directory |-> <<"Listing directory">>,
     web_search |-> <<"Searching the web">>, web_fetch |-> <<"Fetching webpage">>]
Spellings(tool) ==
    IF tool = "read" THEN {"read", "READ"} ELSE IF tool = "bash" THEN {"bash", "Bash"} ELSE {tool}
Names(name) == {tool \in DOMAIN DescriptionTable : name \in Spellings(tool)}

\* C22: get_tool_description returns the title verbatim when there is one,
\* otherwise the fixed description of read, write, edit, bash, glob, grep,
\* list_directory, web_search and web_fetch (the name read without regard to
\* letter case), and for every other tool "Running <toolName>" with the name
\* as received.
C22_DescriptionOfTool ==
    tl_out # None =>
        Unwrap(tl_out).description =
            IF IsSome(tl_title) THEN Unwrap(tl_title)
            ELSE IF Names(tl_name) # {}
                 THEN DescriptionTable[CHOOSE tool \in Names(tl_name) : TRUE]
                 ELSE <<"Running ", tl_name>>

\* an unknown tool in mixed case got the fallback
C22_Witness ==
    /\ tl_out # None /\ tl_name = "MyTool" /\ tl_title = None
    /\ Unwrap(tl_out).description = <<"Running ", "MyTool">>

\* the input fields a tool summarises
SummarisedFields(name) ==
    IF Names(name) \cap {"read", "write", "edit"} # {} THEN {"file_path", "path", "filename"}
    ELSE IF Names(name) = {"bash"} THEN {"command"}
    ELSE IF Names(name) \cap {"glob", "grep"} # {} THEN {"pattern"}
    ELSE IF Names(name) = {"web_search"} THEN {"query"}
    ELSE IF Names(name) = {"web_fetch"} THEN {"url"}
    ELSE {}

\* the tool is unrecognised, the input absent, or the input without the field
NothingToSummarise ==
    \/ SummarisedFields(tl_name) = {}
    \/ tl_input = None
    \/ ~Unwrap(tl_input).obj
    \/ DOMAIN Unwrap(tl_input).f \cap SummarisedFields(tl_name) = {}

\* C23: a running tool event whose tool is unrecognised, whose input is absent
\* or whose input lacks the field the tool summarises has an empty summary,
\* and message and fullMessage are both the bare description, without ": ".
C23_BareDescription ==
    (tl_out # None /\ NothingToSummarise) =>
        /\ Unwrap(tl_out).summary = TextOk(<<>>)
        /\ Unwrap(tl_out).log = <<>>
        /\ RunningYields
        /\ RunningUpdate.message = Some(Unwrap(tl_out).description)
        /\ Unwrap(RunningUpdate.details).full_message = Some(Unwrap(tl_out).description)
        /\ \A i \in 1..Len(Unwrap(RunningUpdate.message)) : Unwrap(RunningUpdate.message)[i] # ": "

\* bash was given an object that holds a pattern and no command
C23_Witness ==
    /\ RunningYields /\ tl_name = "bash" /\ tl_title = None
    /\ tl_input # None /\ Unwrap(tl_input).obj /\ DOMAIN Unwrap(tl_input).f = {"pattern"}
    /\ RunningUpdate.message = Some(<<"Running command">>)

\* the command of a bash event, None when the event is of another shape
BashCommand ==
    IF /\ tl_name \in {"bash", "Bash"} /\ tl_title = None /\ tl_input # None
       /\ Unwrap(tl_input).obj /\ DOMAIN Unwrap(tl_input).f = {"command"}
       /\ Unwrap(tl_input).f["command"].str
    THEN Some(Unwrap(tl_input).f["command"].s) ELSE None

\* the first 47 characters and "..." of a text longer than 50 characters
First50(text) ==
    IF Len(text) <= 50 THEN text ELSE SubSeq(text, 1, 47) \o <<".", ".", ".">>

\* C24: for a running bash event without a title, message is
\* "Running command: " and the command truncated to 50 characters, fullMessage
\* is "Running command: " and the whole command, and the two are equal exactly
\* when the command has at most 50 characters.
C24_BashMessage ==
    (tl_out # None /\ IsSome(BashCommand)) =>
        /\ RunningYields
        /\ RunningUpdate.message = Some(<<"Running command", ": ">> \o First50(Unwrap(BashCommand)))
        /\ Unwrap(RunningUpdate.details).full_message
              = Some(<<"Running command", ": ">> \o Unwrap(BashCommand))
        /\ (RunningUpdate.message = Unwrap(RunningUpdate.details).full_message)
              <=> (Len(Unwrap(BashCommand)) <= 50)

\* C25: when the agent process is spawned, its environment holds, for every
\* provider with a stored credential at that moment, the provider's API-key
\* variable set to the stored secret.
C25_CredentialsInjected ==
    [][(spawn_env = None /\ spawn_env' # None) =>
          \A i \in 1..Len(Providers) :
              LET stored == get_credential(cred_file, Providers[i], TRUE).value
              IN  IsSome(stored) =>
                     /\ env_var_name(Providers[i]) \in DOMAIN Unwrap(spawn_env')
                     /\ Unwrap(spawn_env')[env_var_name(Providers[i])] = Unwrap(stored)]_vars

\* the locatings that found a triple
Found == {i \in 1..Len(located) : located[i].found.ok}

\* C26: the tools and workspace directories are the bundled ones when
\* resourceRoot/native_tools exists and the development ones otherwise, the
\* binary path is toolsDir/<name> when that file exists and the bare name
\* otherwise, and locating again on an unchanged filesystem yields the
\* identical triple.
C26_LocationDeterministic ==
    /\ \A i \in Found :
          LET e == located[i]
              root == IF <<"resource", "native_tools">> \in e.files
                      THEN <<"resource">> ELSE <<"project">>
              tools == root \o <<"native_tools">>
          IN  /\ e.found.value.native_tools_path = tools
              /\ e.found.value.opencode_workspace_path = root \o <<"opencode_workspace">>
              /\ e.found.value.binary = IF tools \o <<e.name>> \in e.files
                                        THEN tools \o <<e.name>> ELSE <<e.name>>
    /\ \A i, j \in Found :
          (located[i].files = located[j].files /\ located[i].name = located[j].name)
              => located[i].found = located[j].found

\* AppPaths and OpencodeManager located opencode on the same filesystem, in
\* development mode with the binary missing
C26_Witness ==
    /\ Found = {1, 2}
    /\ located[1].by # located[2].by /\ located[1].files = located[2].files
    /\ located[1].name = located[2].name
    /\ located[1].found.value.native_tools_path = <<"project", "native_tools">>
    /\ located[1].found.value.binary = <<"opencode">>
    /\ located[2].found = located[1].found

RECURSIVE LastSaved(_, _)
\* the secret of the last save of the provider that no delete of it followed
LastSaved(hist, provider) ==
    IF hist = <<>> THEN None
    ELSE LET last == hist[Len(hist)]
         IN  IF last.provider # provider THEN LastSaved(SubSeq(hist, 1, Len(hist) - 1), provider)
             ELSE IF last.op = "save" THEN Some(last.api_key) ELSE None

\* C27: after any sequence of saves and deletes, get(p) is the secret of the
\* most recent save of p that no later delete of p followed, and none
\* otherwise (so an operation on one provider leaves the others' entries
\* alone); list reports the three providers in fixed order, has_key true
\* exactly for those whose get returns a secret.
C27_StoreFollowsHistory ==
    /\ \A i \in 1..Len(Providers) :
          get_credential(cred_file, Providers[i], TRUE) = Ok(LastSaved(cred_hist, Providers[i]))
    /\ (cred_ret # None /\ Unwrap(cred_ret).cmd = "list" /\ Unwrap(cred_ret).result.ok) =>
          Unwrap(cred_ret).result.value
            = << [provider_id |-> <<"a", "n", "t", "h", "r", "o", "p", "i", "c">>,
                  has_key |-> IsSome(LastSaved(cred_hist, "Anthropic"))],
                 [provider_id |-> <<"o", "p", "e", "n", "a", "i">>,
                  has_key |-> IsSome(LastSaved(cred_hist, "OpenAI"))],
                 [provider_id |-> <<"g", "o", "o", "g", "l", "e">>,
                  has_key |-> IsSome(LastSaved(cred_hist, "Google"))] >>

\* a key was saved twice for one provider, another provider's key was deleted,
\* and the list shows it
C27_Witness ==
    /\ Len(cred_hist) = 3
    /\ cred_hist[1].op = "save" /\ cred_hist[2].op = "save" /\ cred_hist[3].op = "delete"
    /\ cred_hist[1].provider = cred_hist[3].provider
    /\ cred_hist[2].provider # cred_hist[1].provider
    /\ get_credential(cred_file, cred_hist[1].provider, TRUE) = Ok(None)
    /\ get_credential(cred_file, cred_hist[2].provider, TRUE) = Ok(Some(cred_hist[2].api_key))

\* text is a spelling of id in some letter case
CaseVariant(text, id) ==
    /\ Len(text) = Len(id)
    /\ \A i \in 1..Len(id) : text[i] = id[i] \/ (id[i] \in DOMAIN Upper /\ text[i] = Upper[id[i]])
SpelledProviders(text) ==
    {i \in 1..Len(Providers) : CaseVariant(text, as_str(Providers[i]))}

\* C28: from_str(as_str(p)) is p for the three providers, every letter-case
\* variant of a provider id parses to that provider, every other string gives
\* None, and on such a string save_credential and delete_credential fail with
\* an unknown-provider error.
C28_FromStrInvertsAsStr ==
    /\ \A i \in 1..Len(Providers) : from_str(as_str(Providers[i])) = Some(Providers[i])
    /\ (cred_ret # None /\ Unwrap(cred_ret).cmd \in {"save", "delete"}) =>
          LET id == Unwrap(cred_ret).provider_id
              unknown == Err(<<"Unknown provider: ">> \o id)
          IN  IF SpelledProviders(id) = {}
              THEN from_str(id) = None /\ Unwrap(cred_ret).result = unknown
              ELSE /\ \A i \in SpelledProviders(id) : from_str(id) = Some(Providers[i])
                   /\ Unwrap(cred_ret).result # unknown

\* a key was saved under the id "OPENAI"
C28_Witness ==
    /\ cred_ret # None /\ Unwrap(cred_ret).cmd = "save"
    /\ Unwrap(cred_ret).provider_id = <<"O", "P", "E", "N", "A", "I">>
    /\ Unwrap(cred_ret).result.ok
    /\ get_credential(cred_file, "OpenAI", TRUE).value # None

\* Uninitialized (0) before OpencodeManager::new is called, Starting (1) while
\* it runs, Ready or InitFailed (2) once it has returned
Phase(at) ==
    IF at = "start" THEN 0 ELSE IF at \in {"done", "failed"} THEN 2 ELSE 1

\* C29: construction goes from Uninitialized to Starting and then to Ready or
\* InitFailed, in that order: the session-create request is issued only after
\* a health check has succeeded, the manager is published only after a session
\* id has been parsed, and once InitFailed the shared state stays
\* uninitialized forever.
C29_ConstructionOrder ==
    [][/\ Phase(init_pc') \in {Phase(init_pc), Phase(init_pc) + 1}
       /\ (init_pc' = "session" /\ init_pc # "session") =>
              /\ init_pc = "health" /\ child = "running"
              /\ attempts' = attempts + 1 /\ retries < max_retries
       /\ (IsSome(opencode') /\ ~IsSome(opencode)) =>
              /\ init_pc = "publish" /\ init_pc' = "done"
              /\ IsSome(new_session_id)
              /\ Unwrap(opencode').session_id = Unwrap(new_session_id)
       /\ init_pc = "failed" => (init_pc' = "failed" /\ opencode' = None)
       /\ init_pc # "done" => opencode = None]_vars

\* construction failed at the session after several health checks, and the
\* shared state is uninitialized
C29_Witness ==
    /\ init_pc = "failed" /\ init_error = "unparseable"
    /\ attempts > 1
    /\ opencode = None

\* the state of a completed or errored tool event of the active session whose
\* time record carries both start and end; None for any other event
TimedState ==
    IF /\ IsSome(ActivePart)
       /\ Unwrap(ActivePart).part_type = "tool"
       /\ IsSome(Unwrap(ActivePart).tool) /\ IsSome(Unwrap(ActivePart).state)
       /\ Unwrap(Unwrap(ActivePart).state).status \in {Some("completed"), Some("error")}
       /\ ~MissingTime(Unwrap(Unwrap(ActivePart).state))
    THEN Unwrap(ActivePart).state ELSE None

\* C30: for every completed or errored tool event whose time record carries
\* both start and end, the update carries the duration end - start; the
\* subtraction neither aborts nor wraps around, also when end is smaller than
\* start.
C30_DurationNeverWraps ==
    (pe_out # Pending /\ IsSome(TimedState)) =>
        LET start == Unwrap(Unwrap(Unwrap(TimedState).time).start)
            end == Unwrap(Unwrap(Unwrap(TimedState).time).end)
        IN  /\ pe_out.tag = "some"
            /\ end >= start => Unwrap(Unwrap(pe_out.update).details).duration = Some(end - start)
            /\ end < start =>
                  Unwrap(Unwrap(pe_out.update).details).duration # Some((end - start) % U64Modulus)

\* the calls whose prompt request is in flight
Posting == {c \in Calls : pc[c] = "posting"}

\* C31: sends on one manager are serialized: the command holds the manager's
\* lock from before its request is posted until the result is returned, so at
\* most one prompt request is in flight, and a second command starts its
\* request only after the first has resolved.
C31_SendsSerialized ==
    [][/\ Cardinality(Posting) <= 1
       /\ \A c \in Posting : lock = c
       /\ \A c \in Posting' \ Posting : Posting = {} /\ lock = 0]_vars

\* the second command waits for the lock while the first one's request is in
\* flight
C31_Witness ==
    /\ pc[1] = "posting" /\ pc[2] = "locking"
    /\ lock = 1 /\ IsSome(opencode)

\* C32: whenever the manager slot is initialized the paths slot is initialized
\* too: paths are published before the manager, and the manager does not
\* become ready when path resolution failed.
C32_PathsBeforeManager ==
    /\ IsSome(opencode) => IsSome(paths)
    /\ init_pc \in {"health", "session", "publish", "done"} => IsSome(paths)
    /\ (init_pc # "start" /\ ~IsSome(paths)) => ~IsSome(opencode)

\* the manager is ready and the paths are there
C32_Witness ==
    /\ init_pc = "done" /\ IsSome(opencode) /\ IsSome(paths)

\* C33: when two credential writes for different providers overlap, both
\* changes are in the file once both have finished: no interleaving loses one
\* writer's update.
C33_NoLostUpdate ==
    (\A w \in DOMAIN wr_pc : wr_pc[w] = "done") =>
        \A w \in DOMAIN wr_pc :
            LET stored == get_credential(cred_file, wr_op[w].provider, TRUE).value
            IN  IF wr_op[w].op = "save" THEN stored = Some(wr_op[w].api_key)
                ELSE stored = None

\* C34: on the same filesystem the tools directory, the workspace directory,
\* the search-path value, the agent binary path and the browser cache path
\* computed inside OpencodeManager::new equal those computed by AppPaths, so
\* the agent server and ensure_browser run with the same tool environment.
C34_ResolversAgree ==
    \A i, j \in Found :
        (/\ located[i].by = "AppPaths" /\ located[j].by = "OpencodeManager"
         /\ located[i].files = located[j].files)
        => LET a == located[i].found.value
               m == located[j].found.value
           IN  /\ a.native_tools_path = m.native_tools_path
               /\ a.opencode_workspace_path = m.opencode_workspace_path
               /\ a.path_env = m.path_env
               /\ a.playwright_browsers_path = m.playwright_browsers_path
               /\ located[i].name = "opencode" => a.binary = m.binary

\* both resolvers ran on a filesystem without a development tools directory
\* and with a search path inherited, and found the same environment
C34_Witness ==
    /\ Found = {1, 2}
    /\ located[1].by = "AppPaths" /\ located[2].by = "OpencodeManager"
    /\ located[1].name = "opencode"
    /\ located[1].files = {} /\ located[2].files = {}
    /\ located[1].found.value.path_env = <<"/usr/bin">>
    /\ located[2].found = located[1].found

====
